---- MODULE Spec2Model ----
(***************************************************************************)
(* termsvg: the IR pipeline (event preprocessing, frame deduplication,     *)
(* colour catalog) and the raster engine.                                  *)
(*                                                                         *)
(* Each component is checked under its own specification:                  *)
(*   SpecDedup    deduplicateFrames applied to bounded frame sequences     *)
(*   SpecCatalog  ColorCatalog under Register / GenerateClassNames calls   *)
(*   SpecPre      preprocessEvents applied to bounded event lists          *)
(*   SpecRow      captureRow applied to the lines of a bounded screen      *)
(*   SpecProcess  Process applied to bounded recordings, Writes may fail   *)
(*   SpecRender   Rasterize, RasterizeWithPalette and the GIF Render       *)
(*   SpecPalette  buildPalette over themes and catalogs of many colours    *)
(*   SpecPool     the worker-pool render, goroutines interleaved           *)
(*   SpecPoolLive the same under fair scheduling                           *)
(*   SpecParallel renderFramesParallel with a semaphore and cancellation   *)
(***************************************************************************)
EXTENDS Integers, Sequences, FiniteSets, TLC

VARIABLES
    frames,      \* deduplicateFrames: the caller's frame slice
    deduped,     \* result of deduplicateFrames(frames)
    again,       \* result of deduplicateFrames(deduped)
    dedupCalls,  \* how many of the two calls have returned
    colors,      \* ColorCatalog.colors: ColorID -> RGBA
    lookup,      \* ColorCatalog.lookup: colorKey -> ColorID
    nextID,      \* ColorCatalog.nextID
    op,          \* the catalog method that returned last
    arg,         \* its argument
    ret,         \* its return value
    given,       \* every (colour, ColorID) pair a Register call has returned
    gradient,    \* how many gradient colours the recording opened with
    firstSeen,   \* the other resolved RGB triples, in first-registered order
    heap,        \* preprocessEvents: the backing arrays of the event slices
    cast,        \* cast.Events, the caller's slice
    config,      \* ProcessorConfig: Speed, IdleTimeLimit, Compress
    events,      \* the slice preprocessEvents returned
    before,      \* the caller's events as they were when the call began
    preCalls,    \* how many calls of preprocessEvents have returned
    rowTerm,     \* captureRow: the terminal emulator's screen
    rowsDone,    \* the rows captureFrame has captured so far
    rowCatalog,  \* the catalog captureRow registers the cells' colours in
    rowStats,    \* the Stats captureRow updates
    procCast,    \* Process: the recording
    procOutcomes,\* what the terminal does with each Write
    procConfig,  \* the processor's configuration
    procRet,     \* the Recording and the error Process returned
    procCalls,   \* how many calls of Process have returned
    renderRec,   \* the Recording handed to the rasterizer and the renderer
    picture,     \* the pixel colours the drawing routines give each frame
    renderOp,    \* the operation that returned last
    renderCtx,   \* the context Render was called with
    renderTheme, \* the Theme of the renderer's configuration
    renderFontLoads, \* whether loadFontFace succeeds inside the render
    renderRet,   \* what the operation returned and what the writer received
    pool,        \* the worker-pool render: main goroutine, workers, channels
    par          \* renderFramesParallel: main goroutine, goroutines, semaphore

dedupVars == <<frames, deduped, again, dedupCalls>>

catalogVars == <<colors, lookup, nextID, op, arg, ret, given, gradient,
                 firstSeen>>

preVars == <<heap, cast, config, events, before, preCalls>>

rowVars == <<rowTerm, rowsDone, rowCatalog, rowStats>>

processVars == <<procCast, procOutcomes, procConfig, procRet, procCalls>>

renderVars ==
    <<renderRec, picture, renderOp, renderCtx, renderTheme, renderFontLoads,
      renderRet>>

poolVars == <<pool>>

parallelVars == <<par>>

vars == <<dedupVars, catalogVars, preVars, rowVars, processVars, renderVars,
          poolVars, parallelVars>>

\* What the operations of one component leave alone
exceptDedup == <<catalogVars, preVars, rowVars, processVars, renderVars,
    poolVars, parallelVars>>

exceptCatalog == <<dedupVars, preVars, rowVars, processVars, renderVars,
    poolVars, parallelVars>>

exceptPre == <<dedupVars, catalogVars, rowVars, processVars, renderVars,
    poolVars, parallelVars>>

exceptRow == <<dedupVars, catalogVars, preVars, processVars, renderVars,
    poolVars, parallelVars>>

exceptProcess == <<dedupVars, catalogVars, preVars, rowVars, renderVars,
    poolVars, parallelVars>>

exceptRender == <<dedupVars, catalogVars, preVars, rowVars, processVars,
    poolVars, parallelVars>>

exceptPool ==
    <<dedupVars, catalogVars, preVars, rowVars, processVars, renderVars,
      parallelVars>>

exceptParallel ==
    <<dedupVars, catalogVars, preVars, rowVars, processVars, renderVars,
      poolVars>>

(***************************************************************************)
(* Bounds                                                                  *)
(***************************************************************************)
MaxFrames == 3

\* Frame delays handed to deduplicateFrames (time units)
Delays == {1, 2}

\* Index of the first incoming frame; frame i carries IndexBase + i
IndexBases == {0, 7}

\* GenerateClassNames is called while fewer than MaxNames + 1 IDs are assigned
MaxNames == 704

\* Number of distinct true colours of the colour gradient a recording may
\* open with
GradientSizes == {25, 700, 65534}

\* Events of a recording handed to preprocessEvents
MaxEvents == 3

\* Largest timestamp of a recording, in quanta
MaxTime == 8

\* Columns of the terminal whose rows are captured
MaxWidth == 3

(***************************************************************************)
(* IR data model (ir.Cursor, ir.CellAttrs, ir.TextRun, ir.Row, ir.Frame)   *)
(***************************************************************************)
CellAttrs(fg, bg, bold, italic, underline, dim) ==
    [FG |-> fg, BG |-> bg, Bold |-> bold, Italic |-> italic,
     Underline |-> underline, Dim |-> dim]

TextRun(text, startCol, attrs) ==
    [Text |-> text, StartCol |-> startCol, Attrs |-> attrs]

Row(y, runs) == [Y |-> y, Runs |-> runs]

Cursor(col, row, visible) == [Col |-> col, Row |-> row, Visible |-> visible]

Frame(time, delay, index, rows, cursor) ==
    [Time |-> time, Delay |-> delay, Index |-> index, Rows |-> rows,
     Cursor |-> cursor]

\* The visible content (rows, cursor) of the frames fed to the deduplicator:
\* a base screen and screens that differ from it in exactly one compared field.
PlainAttrs == CellAttrs(0, 0, FALSE, FALSE, FALSE, FALSE)

Screens ==
    LET runA  == TextRun("a", 0, PlainAttrs)
        runB  == TextRun("b", 0, PlainAttrs)
        runA1 == TextRun("a", 1, PlainAttrs)
        runAb == TextRun("a", 0, CellAttrs(0, 0, TRUE, FALSE, FALSE, FALSE))
        runAf == TextRun("a", 0, CellAttrs(1, 0, FALSE, FALSE, FALSE, FALSE))
        cur   == Cursor(0, 0, TRUE)
    IN  { [Rows |-> <<Row(0, <<runA>>)>>,  Cursor |-> cur],
          [Rows |-> <<Row(0, <<runA>>)>>,  Cursor |-> Cursor(0, 0, FALSE)],
          [Rows |-> <<Row(0, <<runB>>)>>,  Cursor |-> cur],
          [Rows |-> <<Row(0, <<runA1>>)>>, Cursor |-> cur],
          [Rows |-> <<Row(0, <<runAb>>)>>, Cursor |-> cur],
          [Rows |-> <<Row(0, <<runAf>>)>>, Cursor |-> cur],
          [Rows |-> <<Row(0, <<runA, runA1>>)>>, Cursor |-> cur],
          [Rows |-> <<Row(0, <<runA>>), Row(1, <<>>)>>, Cursor |-> cur] }

RECURSIVE SumDelay(_)
SumDelay(fs) == IF fs = <<>> THEN 0 ELSE fs[1].Delay + SumDelay(Tail(fs))

\* Frames as Process builds them: frame i is captured at the time of event i
\* and its Delay is the time since the previous capture.
RECURSIVE SumTo(_, _)
SumTo(ds, i) == IF i = 0 THEN 0 ELSE ds[i] + SumTo(ds, i - 1)

CapturedFrames(n, ss, ds, base) ==
    [i \in 1..n |->
        Frame(SumTo(ds, i), ds[i], base + i - 1, ss[i].Rows, ss[i].Cursor)]

(***************************************************************************)
(* framesEqual, rowsEqual, textRunsEqual                                   *)
(***************************************************************************)
textRunsEqual(a, b) ==
    /\ a.Text = b.Text
    /\ a.StartCol = b.StartCol
    /\ a.Attrs = b.Attrs

rowsEqual(a, b) ==
    IF a.Y # b.Y THEN FALSE
    ELSE IF Len(a.Runs) # Len(b.Runs) THEN FALSE
    ELSE \A i \in 1..Len(a.Runs) : textRunsEqual(a.Runs[i], b.Runs[i])

\* faulty variant: the comparison also looks at the timing field Delay
framesEqualWithDelay(a, b) ==
    /\ a.Delay = b.Delay
    /\ a.Cursor = b.Cursor
    /\ a.Rows = b.Rows

framesEqual(a, b) ==
    IF a.Cursor # b.Cursor THEN FALSE
    ELSE IF Len(a.Rows) # Len(b.Rows) THEN FALSE
    ELSE \A i \in 1..Len(a.Rows) : rowsEqual(a.Rows[i], b.Rows[i])

(***************************************************************************)
(* deduplicateFrames                                                       *)
(***************************************************************************)
\* faulty variant: the duplicate is dropped without adding its delay
mergeDuplicateNoDelay(prevFrame, frame) ==
    [prevFrame EXCEPT !.Time = frame.Time]

\* faulty variant: the retained frame keeps its own timestamp
mergeDuplicateNoTime(prevFrame, frame) ==
    [prevFrame EXCEPT !.Delay = @ + frame.Delay]

\* the duplicate branch: prevFrame.Delay += frame.Delay; prevFrame.Time = frame.Time
mergeDuplicate(prevFrame, frame) ==
    [prevFrame EXCEPT !.Delay = @ + frame.Delay, !.Time = frame.Time]

\* the range loop; prevFrame always points at the last element of deduped
RECURSIVE dedupLoop(_, _, _)
dedupLoop(fs, i, out) ==
    IF i > Len(fs) THEN out
    ELSE LET frame == fs[i]
             prevFrame == Len(out)
         IN  IF i = 1
             THEN dedupLoop(fs, i + 1, Append(out, frame))
             ELSE IF framesEqual(out[prevFrame], frame)
                  THEN dedupLoop(fs, i + 1,
                         [out EXCEPT ![prevFrame] = mergeDuplicate(@, frame)])
                  ELSE dedupLoop(fs, i + 1, Append(out, frame))

\* for i := range deduped { deduped[i].Index = i }
renumber(out) == [i \in 1..Len(out) |-> [out[i] EXCEPT !.Index = i - 1]]

deduplicateFrames(fs) ==
    IF Len(fs) <= 1 THEN fs
    ELSE renumber(dedupLoop(fs, 1, <<>>))

(***************************************************************************)
(* Colours and the palette (color.Color, color.Palette)                    *)
(***************************************************************************)
RGBA(r, g, b, a) == [R |-> r, G |-> g, B |-> b, A |-> a]

Color(type, index, rgb) == [Type |-> type, Index |-> index, RGB |-> rgb]

DefaultColor == Color("Default", 0, RGBA(0, 0, 0, 0))

FromANSI(index) == Color("ANSI", index, RGBA(0, 0, 0, 0))

FromExtended(index) == Color("Extended", index, RGBA(0, 0, 0, 0))

FromRGB(r, g, b) == Color("TrueColor", 0, RGBA(r, g, b, 255))

\* Standard(): 16 standard colours, the 6x6x6 cube, the 24-step gray ramp
cubeValue(i) == IF i = 0 THEN 0 ELSE 55 + i * 40

Standard ==
    [index \in 0..255 |->
        IF index < 16
        THEN << RGBA(0, 0, 0, 255),       RGBA(128, 0, 0, 255),
                RGBA(0, 128, 0, 255),     RGBA(128, 128, 0, 255),
                RGBA(0, 0, 128, 255),     RGBA(128, 0, 128, 255),
                RGBA(0, 128, 128, 255),   RGBA(192, 192, 192, 255),
                RGBA(128, 128, 128, 255), RGBA(255, 0, 0, 255),
                RGBA(0, 255, 0, 255),     RGBA(255, 255, 0, 255),
                RGBA(0, 0, 255, 255),     RGBA(255, 0, 255, 255),
                RGBA(0, 255, 255, 255),   RGBA(255, 255, 255, 255) >>[index + 1]
        ELSE IF index < 232
        THEN RGBA(cubeValue((index - 16) \div 36),
                  cubeValue(((index - 16) \div 6) % 6),
                  cubeValue((index - 16) % 6), 255)
        ELSE RGBA(8 + (index - 232) * 10, 8 + (index - 232) * 10,
                  8 + (index - 232) * 10, 255)]

ToRGBA(c, palette) ==
    CASE c.Type \in {"ANSI", "Extended"} -> palette[c.Index]
      [] c.Type = "TrueColor"            -> c.RGB
      [] c.Type = "Default"              -> RGBA(0, 0, 0, 0)
      [] OTHER                           -> RGBA(0, 0, 0, 0)

\* The theme defaults handed to NewColorCatalog
defaultFG == RGBA(192, 192, 192, 255)

defaultBG == RGBA(0, 0, 0, 255)

(***************************************************************************)
(* The catalog's two Go maps.  A colour gradient fills them with tens of   *)
(* thousands of entries, so a map is held as the pair                      *)
(*   dense  n: the entries of gradient colours 1..n, gradient colour k     *)
(*             being the true colour whose packed 24-bit RGB is k and      *)
(*             whose ColorID is k,                                         *)
(*   over   every other entry, and every entry that replaced a dense one.  *)
(* has/get/put/len below are the map operations on this pair.              *)
(***************************************************************************)
colorKey(rgba) == [r |-> rgba.R, g |-> rgba.G, b |-> rgba.B]

GradientRGBA(k) == RGBA(k \div 65536, (k \div 256) % 256, k % 256, 255)

GradientRank(key) == key.r * 65536 + key.g * 256 + key.b

EmptyMap == [dense |-> 0, over |-> <<>>]

\* m[k] = v
MapStore(f, k, v) == (k :> v) @@ f

colorsHas(m, id) == id \in DOMAIN m.over \/ id \in 1..m.dense

colorsGet(m, id) == IF id \in DOMAIN m.over THEN m.over[id] ELSE GradientRGBA(id)

colorsPut(m, id, rgba) ==
    IF id = m.dense + 1 /\ rgba = GradientRGBA(id) /\ id \notin DOMAIN m.over
    THEN [m EXCEPT !.dense = id]
    ELSE [m EXCEPT !.over = MapStore(@, id, rgba)]

colorsLen(m) == m.dense + Cardinality(DOMAIN m.over \ (1..m.dense))

lookupHas(m, key) ==
    key \in DOMAIN m.over \/ GradientRank(key) \in 1..m.dense

lookupGet(m, key) ==
    IF key \in DOMAIN m.over THEN m.over[key] ELSE GradientRank(key)

lookupPut(m, key, id) ==
    IF id = m.dense + 1 /\ GradientRank(key) = id /\ key \notin DOMAIN m.over
    THEN [m EXCEPT !.dense = id]
    ELSE [m EXCEPT !.over = MapStore(@, key, id)]

(***************************************************************************)
(* ColorCatalog                                                            *)
(***************************************************************************)
\* type ColorID uint16
ColorIDRange == 65536

DefaultColorID == 0

NewColorCatalog == [colors |-> EmptyMap, lookup |-> EmptyMap, nextID |-> 1]

\* faulty variant: the Default early return is missing
RegisterDefaultResolved(c, col, palette) ==
    LET rgba == ToRGBA(col, palette)
        key  == colorKey(rgba)
    IN  IF lookupHas(c.lookup, key)
        THEN [catalog |-> c, id |-> lookupGet(c.lookup, key)]
        ELSE [catalog |-> [colors |-> colorsPut(c.colors, c.nextID, rgba),
                           lookup |-> lookupPut(c.lookup, key, c.nextID),
                           nextID |-> (c.nextID + 1) % ColorIDRange],
              id |-> c.nextID]

\* Register: the catalog after the call and the ColorID returned
Register(c, col, palette) ==
    IF col.Type = "Default"
    THEN [catalog |-> c, id |-> DefaultColorID]
    ELSE LET rgba == ToRGBA(col, palette)
             key  == colorKey(rgba)
         IN  IF lookupHas(c.lookup, key)
             THEN [catalog |-> c, id |-> lookupGet(c.lookup, key)]
             ELSE LET id == c.nextID
                  IN  [catalog |->
                          [colors |-> colorsPut(c.colors, id, rgba),
                           lookup |-> lookupPut(c.lookup, key, id),
                           nextID |-> (c.nextID + 1) % ColorIDRange],
                       id |-> id]

Count(c) == colorsLen(c.colors)

\* idGenerator.Next: increment with carry from the last byte, 'a' = 97
RECURSIVE idNextLoop(_, _)
idNextLoop(current, i) ==
    IF i < 1 THEN <<97>> \o current
    ELSE IF current[i] < 122
         THEN [current EXCEPT ![i] = @ + 1]
         ELSE idNextLoop([current EXCEPT ![i] = 97], i - 1)

idNext(current) == idNextLoop(current, Len(current))

newIDGenerator == <<96>>

\* GenerateClassNames: for id := ColorID(1); id < c.nextID; id++
\* The loop over the IDs lo..hi is unfolded by halves; the generator runs
\* through the first half before the second.
RECURSIVE classNamesLoop(_, _, _)
classNamesLoop(lo, hi, g) ==
    IF lo > hi THEN g
    ELSE IF lo = hi
    THEN CHOOSE r \in { [gen |-> name, names |-> MapStore(g.names, lo, name)]
                         : name \in {idNext(g.gen)} } : TRUE
    ELSE CHOOSE r \in { classNamesLoop((lo + hi) \div 2 + 1, hi, first)
                         : first \in {classNamesLoop(lo, (lo + hi) \div 2, g)} }
                : TRUE

GenerateClassNames(c) ==
    classNamesLoop(1, c.nextID - 1,
                   [gen |-> newIDGenerator, names |-> <<>>]).names

\* captureRow over a row of gradient cells lo..hi: one Register per cell,
\* unfolded by halves, the first half registered before the second
RECURSIVE RegisterGradientCells(_, _, _)
RegisterGradientCells(c, lo, hi) ==
    IF lo > hi THEN [catalog |-> c, id |-> DefaultColorID]
    ELSE IF lo = hi
    THEN Register(c, FromRGB(GradientRGBA(lo).R, GradientRGBA(lo).G,
                             GradientRGBA(lo).B), Standard)
    ELSE CHOOSE r \in { RegisterGradientCells(first.catalog,
                                              (lo + hi) \div 2 + 1, hi)
                         : first \in {RegisterGradientCells(
                                          c, lo, (lo + hi) \div 2)} } : TRUE

\* Resolved: a Go map read of a missing key yields the zero RGBA
Resolved(c, id) ==
    IF id = DefaultColorID THEN RGBA(0, 0, 0, 0)
    ELSE IF colorsHas(c.colors, id) THEN colorsGet(c.colors, id)
    ELSE RGBA(0, 0, 0, 0)

IsDefault(id) == id = DefaultColorID

DefaultForeground(c) == defaultFG

DefaultBackground(c) == defaultBG

(***************************************************************************)
(* Rasterizer.computeTextRunColors                                         *)
(***************************************************************************)
RowHeight == 25

ColWidth == 12

Padding == 20

HeaderSize == 2

contentOffsetY(showWindow) ==
    IF showWindow THEN Padding * HeaderSize ELSE Padding

dimColor(c) == RGBA(c.R \div 2, c.G \div 2, c.B \div 2, c.A)

textRunColors(fg, bg, textWidth, x, y) ==
    [fg |-> fg, bg |-> bg, textWidth |-> textWidth, x |-> x, y |-> y]

\* faulty variant: the background of an unset cell is taken from the
\* foreground slot
computeTextRunColorsOneSlot(run, rowY, c, showWindow) ==
    LET bgColor == IF IsDefault(run.Attrs.BG) THEN DefaultForeground(c)
                   ELSE Resolved(c, run.Attrs.BG)
        fgColor == IF IsDefault(run.Attrs.FG) THEN DefaultForeground(c)
                   ELSE Resolved(c, run.Attrs.FG)
    IN  textRunColors(IF run.Attrs.Dim THEN dimColor(fgColor) ELSE fgColor,
                      bgColor,
                      Len(run.Text) * ColWidth,
                      Padding + run.StartCol * ColWidth,
                      contentOffsetY(showWindow) + rowY * RowHeight)

computeTextRunColors(run, rowY, c, showWindow) ==
    LET bgColor == IF IsDefault(run.Attrs.BG) THEN DefaultBackground(c)
                   ELSE Resolved(c, run.Attrs.BG)
        fgColor == IF IsDefault(run.Attrs.FG) THEN DefaultForeground(c)
                   ELSE Resolved(c, run.Attrs.FG)
    IN  textRunColors(IF run.Attrs.Dim THEN dimColor(fgColor) ELSE fgColor,
                      bgColor,
                      Len(run.Text) * ColWidth,
                      Padding + run.StartCol * ColWidth,
                      contentOffsetY(showWindow) + rowY * RowHeight)

(***************************************************************************)
(* asciicast.Event and float64 timestamps                                  *)
(*                                                                         *)
(* Event.Time is a float64.  A timestamp is held as an integer number of   *)
(* quanta and every arithmetic result is rounded, to nearest and ties to   *)
(* even, to SignificandBits significant bits, as IEEE-754 rounds a float64 *)
(* result to 53.                                                           *)
(***************************************************************************)
SignificandBits == 3

\* 1.0 second, in quanta
Second == 4

RECURSIVE Pow2(_)
Pow2(k) == IF k = 0 THEN 1 ELSE 2 * Pow2(k - 1)

\* The exponent at which the magnitude q is held: the least e >= 0 with
\* q < 2^(SignificandBits + e)
RECURSIVE ExponentOf(_, _)
ExponentOf(q, e) ==
    IF q < Pow2(SignificandBits + e) THEN e ELSE ExponentOf(q, e + 1)

\* n / d for n >= 0, d > 0, rounded to a representable value
RoundQuotient(n, d) ==
    LET e    == ExponentOf(n \div d, 0)
        unit == d * Pow2(e)
        m    == n \div unit
        r    == n % unit
        up   == 2 * r > unit \/ (2 * r = unit /\ m % 2 = 1)
    IN  (IF up THEN m + 1 ELSE m) * Pow2(e)

Float64(n, d) == IF n < 0 THEN 0 - RoundQuotient(0 - n, d) ELSE RoundQuotient(n, d)

\* float64 subtraction, addition, and division by speed.num / speed.den
fsub(a, b) == Float64(a - b, 1)

fadd(a, b) == Float64(a + b, 1)

fdiv(a, speed) == Float64(a * speed.den, speed.num)

fmin(a, b) == IF a < b THEN a ELSE b

Event(time, eventType, eventData) ==
    [Time |-> time, EventType |-> eventType, EventData |-> eventData]

Input == "i"

Output == "o"

(***************************************************************************)
(* asciicast.Cast: ToRelativeTime, CapRelativeTime, ToAbsoluteTime         *)
(***************************************************************************)
ToRelativeTime(evs) ==
    [i \in 1..Len(evs) |->
        [evs[i] EXCEPT !.Time = fsub(@, IF i = 1 THEN 0 ELSE evs[i - 1].Time)]]

CapRelativeTime(evs, limit) ==
    IF limit > 0
    THEN [i \in 1..Len(evs) |-> [evs[i] EXCEPT !.Time = fmin(@, limit)]]
    ELSE evs

RECURSIVE toAbsoluteLoop(_, _, _)
toAbsoluteLoop(evs, i, time) ==
    IF i > Len(evs) THEN evs
    ELSE toAbsoluteLoop([evs EXCEPT ![i].Time = fadd(time, evs[i].Time)],
                        i + 1, fadd(time, evs[i].Time))

ToAbsoluteTime(evs) == toAbsoluteLoop(evs, 1, 0)

(***************************************************************************)
(* Processor.preprocessEvents                                              *)
(*                                                                         *)
(* Slices share backing arrays: heap[a] is the content of array a and a    *)
(* slice is an array with a length.  make() adds an array to the heap.     *)
(***************************************************************************)
Slice(arr, len) == [arr |-> arr, len |-> len]

ProcessorConfig(speed, idleTimeLimit, compress) ==
    [Speed |-> speed, IdleTimeLimit |-> idleTimeLimit, Compress |-> compress]

Speed(num, den) == [num |-> num, den |-> den]

DefaultProcessorConfig == ProcessorConfig(Speed(1, 1), 0, TRUE)

\* for i := range events { events[i].Time /= p.config.Speed }
adjustSpeed(evs, speed) ==
    IF speed # Speed(1, 1) /\ speed.num > 0
    THEN [i \in 1..Len(evs) |-> [evs[i] EXCEPT !.Time = fdiv(@, speed)]]
    ELSE evs

\* for j := i; j < len(events); j++ { events[j].Time -= reduction }
shiftFrom(evs, i, reduction) ==
    [j \in 1..Len(evs) |->
        IF j >= i THEN [evs[j] EXCEPT !.Time = fsub(@, reduction)] ELSE evs[j]]

RECURSIVE capLoop(_, _, _, _)
capLoop(evs, limit, i, prev) ==
    IF i > Len(evs) THEN evs
    ELSE LET delay == fsub(evs[i].Time, prev)
         IN  IF delay > limit
             THEN LET shifted == shiftFrom(evs, i, fsub(delay, limit))
                  IN  capLoop(shifted, limit, i + 1, shifted[i].Time)
             ELSE capLoop(evs, limit, i + 1, evs[i].Time)

capIdle(evs, limit) == IF limit > 0 THEN capLoop(evs, limit, 1, 0) ELSE evs

\* faulty variant: an event that shares the last timestamp replaces the
\* payload collected so far
RECURSIVE compressLoopKeepLast(_, _, _)
compressLoopKeepLast(evs, i, compressed) ==
    IF i > Len(evs) THEN compressed
    ELSE IF i = 1 THEN compressLoopKeepLast(evs, 2, <<evs[1]>>)
    ELSE IF evs[i].Time = compressed[Len(compressed)].Time
         THEN compressLoopKeepLast(evs, i + 1,
                  [compressed EXCEPT ![Len(compressed)].EventData =
                                         evs[i].EventData])
         ELSE compressLoopKeepLast(evs, i + 1, Append(compressed, evs[i]))

\* the compression loop: compressed is the array behind the new slice
RECURSIVE compressLoop(_, _, _)
compressLoop(evs, i, compressed) ==
    IF i > Len(evs) THEN compressed
    ELSE IF i = 1 THEN compressLoop(evs, 2, <<evs[1]>>)
    ELSE IF evs[i].Time = compressed[Len(compressed)].Time
         THEN compressLoop(evs, i + 1,
                  [compressed EXCEPT ![Len(compressed)].EventData =
                                         @ \o evs[i].EventData])
         ELSE compressLoop(evs, i + 1, Append(compressed, evs[i]))

\* The elements of slice s
Elements(h, s) == IF s.len = 0 THEN <<>> ELSE SubSeq(h[s.arr], 1, s.len)

\* faulty variant: the timing adjustments are made through the caller's slice
preprocessEventsInPlace(h, c, cfg) ==
    LET timed == capIdle(adjustSpeed(Elements(h, c), cfg.Speed),
                         cfg.IdleTimeLimit)
        h2 == IF c.len = 0 THEN h ELSE [h EXCEPT ![c.arr] = timed]
    IN  IF cfg.Compress
        THEN LET h3 == Append(h2, compressLoop(timed, 1, <<>>))
             IN  [heap |-> h3, events |-> Slice(Len(h3), Len(h3[Len(h3)]))]
        ELSE [heap |-> h2, events |-> c]

\* preprocessEvents: the heap after the call and the slice returned
preprocessEvents(h, c, cfg) ==
    LET h1 == Append(h, Elements(h, c))          \* make and copy
        ev == Slice(Len(h1), c.len)
        h2 == [h1 EXCEPT ![ev.arr] =
                 capIdle(adjustSpeed(@, cfg.Speed), cfg.IdleTimeLimit)]
    IN  IF cfg.Compress
        THEN LET h3 == Append(h2, compressLoop(h2[ev.arr], 1, <<>>))
             IN  [heap |-> h3, events |-> Slice(Len(h3), Len(h3[Len(h3)]))]
        ELSE [heap |-> h2, events |-> ev]

(***************************************************************************)
(* Processor.captureRow, cellToAttrs, attrsEqual                           *)
(***************************************************************************)
Cell(char, foreground, background, bold, italic, underline, dim) ==
    [Char |-> char, Foreground |-> foreground, Background |-> background,
     Bold |-> bold, Italic |-> italic, Underline |-> underline, Dim |-> dim]

Stats(totalFrames, uniqueColors, maxRunsPerRow, hasBold, hasItalic, hasUnderline, hasDim, hasTrueColor) ==
    [TotalFrames |-> totalFrames, UniqueColors |-> uniqueColors,
     MaxRunsPerRow |-> maxRunsPerRow, HasBold |-> hasBold,
     HasItalic |-> hasItalic, HasUnderline |-> hasUnderline,
     HasDim |-> hasDim, HasTrueColor |-> hasTrueColor]

NoStats == Stats(0, 0, 0, FALSE, FALSE, FALSE, FALSE, FALSE)

\* The terminal emulator's screen: Cells[y + 1][x + 1] is term.Cell(x, y)
Screen(width, height, cells) ==
    [Width |-> width, Height |-> height, Cells |-> cells]

\* cellToAttrs: the attributes, with the catalog and the stats it updated
cellToAttrs(cell, c, stats) ==
    LET fg == Register(c, cell.Foreground, Standard)
        bg == Register(fg.catalog, cell.Background, Standard)
    IN  [attrs |-> CellAttrs(fg.id, bg.id, cell.Bold, cell.Italic,
                             cell.Underline, cell.Dim),
         catalog |-> bg.catalog,
         stats |-> [stats EXCEPT
                      !.HasBold = @ \/ cell.Bold,
                      !.HasItalic = @ \/ cell.Italic,
                      !.HasUnderline = @ \/ cell.Underline,
                      !.HasDim = @ \/ cell.Dim,
                      !.HasTrueColor = @ \/ cell.Foreground.Type = "TrueColor"
                                         \/ cell.Background.Type = "TrueColor"]]

attrsEqual(a, b) ==
    /\ a.FG = b.FG
    /\ a.BG = b.BG
    /\ a.Bold = b.Bold
    /\ a.Italic = b.Italic
    /\ a.Underline = b.Underline
    /\ a.Dim = b.Dim

\* string([]rune): a rune that is no Unicode scalar value becomes U+FFFD
RuneError == 65533

ValidRune(r) == r \in 0..55295 \/ r \in 57344..1114111

RunesToString(chars) ==
    [i \in 1..Len(chars) |-> IF ValidRune(chars[i]) THEN chars[i] ELSE RuneError]

\* var current *runBuilder
NoRunBuilder == [nil |-> TRUE]

runBuilder(chars, startX, attrs) ==
    [nil |-> FALSE, chars |-> chars, startX |-> startX, attrs |-> attrs]

finalize(current) ==
    TextRun(RunesToString(current.chars), current.startX, current.attrs)

\* for x := 0; x < term.Width(); x++
RECURSIVE captureRowLoop(_, _, _, _, _, _, _)
captureRowLoop(term, y, x, c, stats, runs, current) ==
    IF x >= term.Width
    THEN [catalog |-> c, stats |-> stats, runs |-> runs, current |-> current]
    ELSE LET cell == term.Cells[y + 1][x + 1]
         IN  CHOOSE l \in
               { IF ~current.nil /\ attrsEqual(current.attrs, a.attrs)
                 THEN captureRowLoop(term, y, x + 1, a.catalog, a.stats, runs,
                          [current EXCEPT !.chars = Append(@, cell.Char)])
                 ELSE captureRowLoop(term, y, x + 1, a.catalog, a.stats,
                          IF ~current.nil THEN Append(runs, finalize(current))
                          ELSE runs,
                          runBuilder(<<cell.Char>>, x, a.attrs))
                 : a \in {cellToAttrs(cell, c, stats)} } : TRUE

\* faulty variant: the run still open when the row ends is not emitted
captureRowOpenRunLost(term, c, y, stats) ==
    LET l    == captureRowLoop(term, y, 0, c, stats, <<>>, NoRunBuilder)
        runs == l.runs
    IN  [row |-> Row(y, runs),
         catalog |-> l.catalog,
         stats |-> IF Len(runs) > l.stats.MaxRunsPerRow
                   THEN [l.stats EXCEPT !.MaxRunsPerRow = Len(runs)]
                   ELSE l.stats]

\* captureRow: the Row, with the catalog and the stats it updated
captureRow(term, c, y, stats) ==
    LET l    == captureRowLoop(term, y, 0, c, stats, <<>>, NoRunBuilder)
        runs == IF ~l.current.nil THEN Append(l.runs, finalize(l.current))
                ELSE l.runs
    IN  [row |-> Row(y, runs),
         catalog |-> l.catalog,
         stats |-> IF Len(runs) > l.stats.MaxRunsPerRow
                   THEN [l.stats EXCEPT !.MaxRunsPerRow = Len(runs)]
                   ELSE l.stats]

(***************************************************************************)
(* terminal.Emulator: the terminal-state oracle (vt10x)                    *)
(*                                                                         *)
(* Write places printable bytes from the cursor on.  A Write may fail: it  *)
(* then returns an error after the terminal has consumed outcome.n bytes.  *)
(***************************************************************************)
Emulator(width, height, cells, col, row, visible) ==
    [Width |-> width, Height |-> height, Cells |-> cells,
     CursorCol |-> col, CursorRow |-> row, CursorVisible |-> visible]

PlainCell(char) ==
    Cell(char, DefaultColor, DefaultColor, FALSE, FALSE, FALSE, FALSE)

\* terminal.New(width, height)
New(width, height) ==
    Emulator(width, height,
             [y \in 1..height |-> [x \in 1..width |-> PlainCell(32)]],
             0, 0, TRUE)

WriteOutcome(failed, n) == [failed |-> failed, n |-> n]

RECURSIVE putBytes(_, _, _)
putBytes(t, data, n) ==
    IF n = 0 \/ data = <<>> THEN t
    ELSE IF t.Width = 0 \/ t.Height = 0 THEN t
    ELSE putBytes(
             [t EXCEPT !.Cells[t.CursorRow + 1][t.CursorCol + 1] =
                           PlainCell(data[1]),
                       !.CursorCol = IF @ + 1 < t.Width THEN @ + 1 ELSE @],
             Tail(data), n - 1)

\* Emulator.Write: the terminal after the call and the error returned
Write(t, data, outcome) ==
    IF outcome.failed
    THEN [term |-> putBytes(t, data, outcome.n), err |-> "write failed"]
    ELSE [term |-> putBytes(t, data, Len(data)), err |-> "nil"]

(***************************************************************************)
(* Processor.Process, captureFrame                                         *)
(***************************************************************************)
Cast(width, height, title, evs) ==
    [Header |-> [Width |-> width, Height |-> height, Title |-> title],
     Events |-> evs]

Recording(width, height, duration, title, fs, catalogue, stats) ==
    [Width |-> width, Height |-> height, Duration |-> duration,
     Title |-> title, Frames |-> fs, Colors |-> catalogue, Stats |-> stats]

\* time.Duration counts nanoseconds; a quantum is 1/Second of a second and
\* the float64 product of a whole number of quanta by 1e9 is exact
floatSecondsToDuration(seconds) == seconds * (1000000000 \div Second)

\* for y := 0; y < term.Height(); y++ { rows[y] = p.captureRow(...) }
RECURSIVE captureRows(_, _, _, _, _)
captureRows(t, c, y, stats, rows) ==
    IF y >= t.Height
    THEN [rows |-> rows, catalog |-> c, stats |-> stats]
    ELSE CHOOSE l \in
           { captureRows(t, r.catalog, y + 1, r.stats, Append(rows, r.row))
             : r \in {captureRow(t, c, y, stats)} } : TRUE

captureFrame(t, c, index, absTime, delay, stats) ==
    CHOOSE f \in
      { [frame |-> Frame(absTime, delay, index, r.rows,
                         Cursor(t.CursorCol, t.CursorRow, t.CursorVisible)),
         catalog |-> r.catalog,
         stats |-> r.stats]
        : r \in {captureRows(t, c, 0, stats, <<>>)} } : TRUE

\* for i, event := range events: the error of term.Write is discarded
RECURSIVE processLoop(_, _, _, _, _, _, _, _)
processLoop(evs, i, t, c, stats, fs, prevTime, outcomes) ==
    IF i > Len(evs)
    THEN [frames |-> fs, catalog |-> c, stats |-> stats]
    ELSE LET frameTime == floatSecondsToDuration(evs[i].Time)
         IN  CHOOSE l \in UNION
               { { processLoop(evs, i + 1, w.term, f.catalog, f.stats,
                               Append(fs, f.frame), frameTime, outcomes)
                   : f \in {captureFrame(w.term, c, i - 1, frameTime,
                                         frameTime - prevTime, stats)} }
                 : w \in {Write(t, evs[i].EventData, outcomes[i])} } : TRUE

\* Process: the Recording and the error returned.  outcomes[i] is what the
\* oracle does with the i-th Write.
Process(c, cfg, outcomes) ==
    LET pre == preprocessEvents(<<c.Events>>, Slice(1, Len(c.Events)), cfg)
        evs == Elements(pre.heap, pre.events)
    IN  CHOOSE out \in UNION
          { { [recording |->
                  Recording(c.Header.Width, c.Header.Height,
                            IF Len(fs) > 0 THEN fs[Len(fs)].Time ELSE 0,
                            c.Header.Title, fs, l.catalog,
                            [l.stats EXCEPT !.TotalFrames = Len(fs),
                                            !.UniqueColors = Count(l.catalog)]),
               err |-> "nil"]
              : fs \in {deduplicateFrames(l.frames)} }
            : l \in {processLoop(evs, 1, New(c.Header.Width, c.Header.Height),
                                 NewColorCatalog, NoStats, <<>>, 0, outcomes)} }
          : TRUE

(***************************************************************************)
(* Errors and contexts                                                     *)
(*                                                                         *)
(* An error is the chain of the errors it wraps, outermost first; nil is   *)
(* the empty chain.                                                        *)
(***************************************************************************)
NilError == <<>>

\* fmt.Errorf(msg) and fmt.Errorf(msg + ": %w", err)
Errorf(msg) == <<msg>>

ErrorfWrap(msg, err) == <<msg>> \o err

Canceled == "context canceled"

DeadlineExceeded == "context deadline exceeded"

\* errors.Is(err, target)
errorsIs(err, target) == \E i \in 1..Len(err) : err[i] = target

\* ctx.Done() is closed, and ctx.Err()
ctxDone(ctx) == ctx # "background"

ctxErr(ctx) ==
    IF ctx = "canceled" THEN <<Canceled>>
    ELSE IF ctx = "deadline" THEN <<DeadlineExceeded>>
    ELSE NilError

(***************************************************************************)
(* raster.Rasterizer: Rasterize, RasterizeWithPalette                      *)
(*                                                                         *)
(* The drawing routines (fonts, shapes) are an oracle: pics[i] is the   *)
(* sequence of pixel colours they produce for frame i.                     *)
(***************************************************************************)
RasterFrame(image, delay, index) ==
    [Image |-> image, Delay |-> delay, Index |-> index, IsDuplicate |-> FALSE]

PalettedFrame(image, delay, index) ==
    [Image |-> image, Delay |-> delay, Index |-> index, IsDuplicate |-> FALSE]

\* image.Paletted
Paletted(pix, palette) == [Pix |-> pix, Palette |-> palette]

\* color.Palette.Index for a colour the palette holds
PaletteIndex(palette, c) ==
    (CHOOSE i \in 1..Len(palette) :
        palette[i] = c /\ \A j \in 1..(i - 1) : palette[j] # c) - 1

\* frameRenderer.render
frameRendererRender(rec, pics) ==
    [i \in 1..Len(rec.Frames) |->
        RasterFrame(pics[i], rec.Frames[i].Delay, i - 1)]

NoImage == [nil |-> TRUE]

\* palettedFrameRenderer.renderSingleFrame: fontLoads tells whether
\* loadFontFace returns a face; pic is what the frame looks like
renderSingleFramePaletted(idx, pic, delay, palette, fontLoads) ==
    IF ~fontLoads
    THEN PalettedFrame(NoImage, delay, idx)
    ELSE PalettedFrame(
             Paletted([p \in 1..Len(pic) |-> PaletteIndex(palette, pic[p])],
                      palette),
             delay, idx)

\* palettedFrameRenderer.render
palettedFrameRendererRender(rec, pics, palette, fontLoads) ==
    [i \in 1..Len(rec.Frames) |->
        renderSingleFramePaletted(i - 1, pics[i], rec.Frames[i].Delay,
                                  palette, fontLoads)]

\* faulty variant: the frame list is not checked
RasterizeUnchecked(rec, pics) ==
    [frames |-> frameRendererRender(rec, pics), err |-> NilError,
     rendered |-> Len(rec.Frames)]

\* Rasterize: the frames and the error returned; rendered counts the frames
\* that were drawn
Rasterize(rec, pics) ==
    IF Len(rec.Frames) = 0
    THEN [frames |-> <<>>, err |-> Errorf("recording has no frames"),
          rendered |-> 0]
    ELSE [frames |-> frameRendererRender(rec, pics), err |-> NilError,
          rendered |-> Len(rec.Frames)]

RasterizeWithPalette(rec, pics, palette, fontLoads) ==
    IF Len(rec.Frames) = 0
    THEN [frames |-> <<>>, err |-> Errorf("recording has no frames"),
          rendered |-> 0]
    ELSE [frames |-> palettedFrameRendererRender(rec, pics, palette,
                                                 fontLoads),
          err |-> NilError, rendered |-> Len(rec.Frames)]

(***************************************************************************)
(* GIF renderer: Render, buildPalette, assembleGIF, processFrame,          *)
(* computeDelta                                                            *)
(***************************************************************************)
gifTimeUnit == 10

minGifDelay == 2

\* gif.DisposalNone
DisposalNone == 1

Transparent == RGBA(0, 0, 0, 0)

\* theme.Theme
Theme(foreground, background, windowBackground, windowButtons) ==
    [Foreground |-> foreground, Background |-> background,
     WindowBackground |-> windowBackground, WindowButtons |-> windowButtons]

\* theme.Default()
Default ==
    Theme(ToRGBA(FromANSI(7), Standard), RGBA(0, 0, 0, 255),
          RGBA(40, 45, 53, 255),
          <<RGBA(255, 95, 86, 255), RGBA(255, 189, 46, 255),
            RGBA(24, 193, 50, 255)>>)

\* ColorCatalog.All: the map of the registered colours
All(c) ==
    [id \in (1..c.colors.dense) \cup DOMAIN c.colors.over |->
        colorsGet(c.colors, id)]

\* buildPalette, the keys of colorSet: the theme colours, the catalog
\* defaults and the registered colours
colorSet(theme, c) ==
    {theme.Background, theme.WindowBackground, theme.Foreground}
        \cup {theme.WindowButtons[i] : i \in 1..3}
        \cup {DefaultForeground(c), DefaultBackground(c)}
        \cup {All(c)[id] : id \in DOMAIN All(c)}

\* faulty variant: the palette is cut to 255 entries
buildPaletteOneShort(order) ==
    LET palette == <<Transparent>> \o order
        padded  == IF Len(palette) < 2
                   THEN palette \o <<RGBA(0, 0, 0, 255)>> ELSE palette
    IN  IF Len(padded) > 255 THEN SubSeq(padded, 1, 255) ELSE padded

\* buildPalette: the transparent colour, then the colours of the theme and
\* of the catalog in the order the map iteration yields them
buildPalette(order) ==
    LET palette == <<Transparent>> \o order
        padded  == IF Len(palette) < 2
                   THEN palette \o <<RGBA(0, 0, 0, 255)>> ELSE palette
    IN  IF Len(padded) > 256 THEN SubSeq(padded, 1, 256) ELSE padded

\* faulty variant: no minimum is enforced
calculateDelayNoMinimum(delay, frameIdx, totalFrames) ==
    (delay \div 1000000) \div gifTimeUnit

\* delay.Milliseconds() / gifTimeUnit, raised to minGifDelay except for the
\* last frame
calculateDelay(delay, frameIdx, totalFrames) ==
    LET d == (delay \div 1000000) \div gifTimeUnit
    IN  IF d < minGifDelay /\ frameIdx < totalFrames - 1
        THEN minGifDelay ELSE d

\* framesEqual(a, b *image.Paletted)
framesEqualPaletted(a, b) ==
    /\ Len(a.Pix) = Len(b.Pix)
    /\ \A i \in 1..Len(a.Pix) : a.Pix[i] = b.Pix[i]

computeDelta(prev, curr, transparentIdx) ==
    Paletted([i \in 1..Len(curr.Pix) |->
                 IF prev.Pix[i] # curr.Pix[i] THEN curr.Pix[i]
                 ELSE transparentIdx],
             curr.Palette)

GIF(image, delay, disposal, loopCount) ==
    [Image |-> image, Delay |-> delay, Disposal |-> disposal,
     LoopCount |-> loopCount]

\* faulty variant: the delay of a skipped frame is lost
processFrameDelayLost(g, prev, curr, delay) ==
    IF prev # NoImage
    THEN IF framesEqualPaletted(prev, curr)
         THEN [g |-> g, skipped |-> TRUE]
         ELSE [g |-> [g EXCEPT
                        !.Image = Append(@, computeDelta(prev, curr, 0)),
                        !.Disposal = Append(@, DisposalNone),
                        !.Delay = Append(@, delay)],
               skipped |-> FALSE]
    ELSE [g |-> [g EXCEPT !.Image = Append(@, curr),
                          !.Disposal = Append(@, DisposalNone),
                          !.Delay = Append(@, delay)],
          skipped |-> FALSE]

\* processFrame: the GIF after the call and whether the frame was skipped
processFrame(g, prev, curr, delay) ==
    IF prev # NoImage
    THEN IF framesEqualPaletted(prev, curr)
         THEN [g |-> [g EXCEPT !.Delay[Len(g.Delay)] = @ + delay],
               skipped |-> TRUE]
         ELSE [g |-> [g EXCEPT
                        !.Image = Append(@, computeDelta(prev, curr, 0)),
                        !.Disposal = Append(@, DisposalNone),
                        !.Delay = Append(@, delay)],
               skipped |-> FALSE]
    ELSE [g |-> [g EXCEPT !.Image = Append(@, curr),
                          !.Disposal = Append(@, DisposalNone),
                          !.Delay = Append(@, delay)],
          skipped |-> FALSE]

\* for i, rf := range frames
RECURSIVE assembleLoop(_, _, _, _)
assembleLoop(fs, i, g, prevPaletted) ==
    IF i > Len(fs) THEN g
    ELSE LET delay == calculateDelay(fs[i].Delay, i - 1, Len(fs))
             r     == processFrame(g, prevPaletted, fs[i].Image, delay)
         IN  IF r.skipped THEN assembleLoop(fs, i + 1, r.g, prevPaletted)
             ELSE assembleLoop(fs, i + 1, r.g, fs[i].Image)

\* gif.EncodeAll: the transparent index of an image is the first palette
\* entry with alpha 0
TransparentIndex(palette) ==
    IF \E i \in 1..Len(palette) : palette[i].A = 0
    THEN (CHOOSE i \in 1..Len(palette) :
             palette[i].A = 0 /\ \A j \in 1..(i - 1) : palette[j].A # 0) - 1
    ELSE -1

\* gif.EncodeAll(w, g): what the writer has received and the error returned
EncodeAll(g, writerFails) ==
    IF writerFails
    THEN [out |-> <<>>, err |-> Errorf("write failed")]
    ELSE [out |-> <<[LoopCount |-> g.LoopCount]>> \o
                  [k \in 1..Len(g.Image) |->
                      [Pix |-> g.Image[k].Pix,
                       Delay |-> g.Delay[k],
                       Disposal |-> g.Disposal[k],
                       TransparentIndex |->
                           TransparentIndex(g.Image[k].Palette)]],
          err |-> NilError]

\* assembleGIF(frames, w)
assembleGIF(fs, loopCount, writerFails) ==
    EncodeAll(assembleLoop(fs, 1, GIF(<<>>, <<>>, <<>>, loopCount), NoImage),
              writerFails)

\* faulty variant: the context is not looked at
RenderNoCancel(ctx, rec, pics, order, writerFails) ==
    IF Len(rec.Frames) = 0
    THEN [err |-> Errorf("recording has no frames"), out |-> <<>>,
          palette |-> <<>>, rendered |-> 0]
    ELSE LET palette == buildPalette(order)
             pf      == RasterizeWithPalette(rec, pics, palette, TRUE)
         IN  IF pf.err # NilError
             THEN [err |-> ErrorfWrap("failed to rasterize frames", pf.err),
                   out |-> <<>>, palette |-> palette,
                   rendered |-> pf.rendered]
             ELSE LET a == assembleGIF(pf.frames, 0, writerFails)
                  IN  [err |-> a.err, out |-> a.out, palette |-> palette,
                       rendered |-> pf.rendered]

\* Render(ctx, rec, w): the error returned and what w has received; palette
\* and rendered tell which work was done.  The rasterizer of a Renderer comes
\* from New, which has loaded the font.
Render(ctx, rec, pics, order, writerFails) ==
    IF Len(rec.Frames) = 0
    THEN [err |-> Errorf("recording has no frames"), out |-> <<>>,
          palette |-> <<>>, rendered |-> 0]
    ELSE LET palette == buildPalette(order)
             pf      == RasterizeWithPalette(rec, pics, palette, TRUE)
         IN  IF pf.err # NilError
             THEN [err |-> ErrorfWrap("failed to rasterize frames", pf.err),
                   out |-> <<>>, palette |-> palette,
                   rendered |-> pf.rendered]
             ELSE IF ctxDone(ctx)
             THEN [err |-> ctxErr(ctx), out |-> <<>>, palette |-> palette,
                   rendered |-> pf.rendered]
             ELSE LET a == assembleGIF(pf.frames, 0, writerFails)
                  IN  [err |-> a.err, out |-> a.out, palette |-> palette,
                       rendered |-> pf.rendered]

(***************************************************************************)
(* raster: palettedFrameRenderer.render with a worker pool                 *)
(*                                                                         *)
(* Images live in a heap: address 0 is the shared base image, address      *)
(* idx + 1 the image allocated for frame idx.  A pixel is a palette index. *)
(***************************************************************************)
BaseAddr == 0

\* createPalettedBaseImage: the background, palette index 1
BasePix == <<1, 1>>

\* progress.Update
Update(phase, current, total) ==
    [Phase |-> phase, Current |-> current, Total |-> total]

\* A channel of capacity cap; a nil channel has no buffer
Channel(cap) == [nil |-> FALSE, cap |-> cap, buf |-> <<>>, closed |-> FALSE]

NilChannel == [nil |-> TRUE, cap |-> 0, buf |-> <<>>, closed |-> FALSE]

\* ch <- v can proceed
CanSend(ch) == ~ch.nil /\ Len(ch.buf) < ch.cap

Send(ch, v) == [ch EXCEPT !.buf = Append(@, v)]

\* results := make([]PalettedFrame, len(frames)): zero values, never written
ZeroFrame == [writes |-> 0, Image |-> -1, Delay |-> 0, Index |-> 0]

\* faulty variant: no copy is made, the base image itself is handed out
copyPalettedBaseImageShared(h, base, addr) ==
    [heap |-> h, img |-> base]

\* copyPalettedBaseImage: image.NewPaletted and copy(img.Pix, base.Pix)
copyPalettedBaseImage(h, base, addr) ==
    [heap |-> (addr :> h[base]) @@ h, img |-> addr]

\* drawFrameContentToPaletted: the text of the frame is drawn over the
\* second pixel of img
drawFrameContentToPaletted(h, img, frame) ==
    [h EXCEPT ![img] = [@ EXCEPT ![2] = frame.Content]]

\* renderSingleFrame(idx, frame, delay, baseImg, face): the heap it leaves
\* and the PalettedFrame it returns
renderSingleFrame(h, idx, frame, delay, baseImg) ==
    LET c == copyPalettedBaseImage(h, baseImg, idx + 1)
    IN  [heap  |-> drawFrameContentToPaletted(c.heap, c.img, frame),
         frame |-> [Image |-> c.img, Delay |-> delay, Index |-> idx]]

\* A worker goroutine: where it is, the font face it draws with, the frame
\* index it took from jobs
Worker(at, face, idx) == [at |-> at, face |-> face, idx |-> idx]

\* render up to the start of the workers.  loadFontFace parses the embedded
\* font at the size of the rasterizer, so every call of one render has the
\* same outcome, fontLoads
RenderCalled(fs, numCPU, progressCh, fontLoads) ==
    [main       |-> "progress",
     frames     |-> fs,
     fontLoads  |-> fontLoads,
     results    |-> [i \in 1..Len(fs) |-> ZeroFrame],
     heap       |-> (BaseAddr :> BasePix),
     numWorkers |-> numCPU,
     jobs       |-> Channel(Len(fs)),
     sent       |-> 0,
     taken      |-> [i \in 1..Len(fs) |-> 0],
     wg         |-> 0,
     workers    |-> <<>>,
     progressCh |-> progressCh]

(***************************************************************************)
(* State after construction                                                *)
(***************************************************************************)
catalog == [colors |-> colors, lookup |-> lookup, nextID |-> nextID]

CatalogNew ==
    /\ colors = NewColorCatalog.colors
    /\ lookup = NewColorCatalog.lookup
    /\ nextID = NewColorCatalog.nextID
    /\ op = "NewColorCatalog"
    /\ arg = DefaultColor
    /\ ret = DefaultColorID
    /\ given = {}
    /\ gradient = 0
    /\ firstSeen = <<>>

DedupIdle ==
    /\ frames = <<>>
    /\ deduped = <<>>
    /\ again = <<>>
    /\ dedupCalls = 0

PreIdle ==
    /\ heap = <<>>
    /\ cast = Slice(0, 0)
    /\ config = DefaultProcessorConfig
    /\ events = Slice(0, 0)
    /\ before = <<>>
    /\ preCalls = 0

RowIdle ==
    /\ rowTerm = Screen(0, 0, <<>>)
    /\ rowsDone = <<>>
    /\ rowCatalog = NewColorCatalog
    /\ rowStats = NoStats

NotCalled == [recording |-> "nil", err |-> "nil"]

ProcessIdle ==
    /\ procCast = Cast(0, 0, "", <<>>)
    /\ procOutcomes = <<>>
    /\ procConfig = DefaultProcessorConfig
    /\ procRet = NotCalled
    /\ procCalls = 0

NoResult ==
    [frames |-> <<>>, err |-> NilError, out |-> <<>>, palette |-> <<>>,
     rendered |-> 0]

RenderIdle ==
    /\ renderRec = Recording(0, 0, 0, "", <<>>, NewColorCatalog, NoStats)
    /\ picture = <<>>
    /\ renderOp = "New"
    /\ renderCtx = "background"
    /\ renderTheme = Default
    /\ renderFontLoads = TRUE
    /\ renderRet = NoResult

\* render has not been called
NotRendering == [main |-> "idle"]

\* Every component but the one under check is as constructed
IdleExcept(component) ==
    /\ IF component = "dedup" THEN TRUE ELSE DedupIdle
    /\ IF component = "catalog" THEN TRUE ELSE CatalogNew
    /\ IF component = "pre" THEN TRUE ELSE PreIdle
    /\ IF component = "row" THEN TRUE ELSE RowIdle
    /\ IF component = "process" THEN TRUE ELSE ProcessIdle
    /\ IF component = "render" THEN TRUE ELSE RenderIdle
    /\ IF component = "pool" THEN TRUE ELSE pool = NotRendering
    /\ IF component = "parallel" THEN TRUE ELSE par = NotRendering

(***************************************************************************)
(* Specification of the deduplicator                                       *)
(***************************************************************************)
InitDedup ==
    /\ \E n \in 0..MaxFrames :
         \E ss \in [1..n -> Screens], ds \in [1..n -> Delays],
            base \in IndexBases :
             frames = CapturedFrames(n, ss, ds, base)
    /\ deduped = <<>>
    /\ again = <<>>
    /\ dedupCalls = 0
    /\ IdleExcept("dedup")

\* frames = deduplicateFrames(frames) in Process
Deduplicate ==
    /\ dedupCalls = 0
    /\ deduped' = deduplicateFrames(frames)
    /\ dedupCalls' = 1
    /\ UNCHANGED <<frames, again, exceptDedup>>

\* a second pass over the already deduplicated sequence
DeduplicateAgain ==
    /\ dedupCalls = 1
    /\ again' = deduplicateFrames(deduped)
    /\ dedupCalls' = 2
    /\ UNCHANGED <<frames, deduped, exceptDedup>>

NextDedup == Deduplicate \/ DeduplicateAgain

SpecDedup == InitDedup /\ [][NextDedup]_vars

(***************************************************************************)
(* Claims about the deduplicator                                           *)
(***************************************************************************)
\* Visual identity as the contract words it: cursor, row count, and per row
\* Y and the runs element by element; Time, Delay and Index play no part.
VisuallyIdentical(a, b) ==
    /\ a.Cursor.Col = b.Cursor.Col
    /\ a.Cursor.Row = b.Cursor.Row
    /\ a.Cursor.Visible = b.Cursor.Visible
    /\ Len(a.Rows) = Len(b.Rows)
    /\ \A r \in 1..Len(a.Rows) :
         /\ a.Rows[r].Y = b.Rows[r].Y
         /\ Len(a.Rows[r].Runs) = Len(b.Rows[r].Runs)
         /\ \A k \in 1..Len(a.Rows[r].Runs) :
              LET x == a.Rows[r].Runs[k]
                  y == b.Rows[r].Runs[k]
              IN  /\ x.Text = y.Text
                  /\ x.StartCol = y.StartCol
                  /\ x.Attrs.FG = y.Attrs.FG
                  /\ x.Attrs.BG = y.Attrs.BG
                  /\ x.Attrs.Bold = y.Attrs.Bold
                  /\ x.Attrs.Italic = y.Attrs.Italic
                  /\ x.Attrs.Underline = y.Attrs.Underline
                  /\ x.Attrs.Dim = y.Attrs.Dim

\* C1: delay conservation - the Delay fields of the frames returned by
\* deduplicateFrames add up to the sum of the Delay fields of its input.
C1_DelayConservation ==
    dedupCalls >= 1 => SumDelay(deduped) = SumDelay(frames)

\* a call that dropped at least one duplicate
C1_Witness ==
    /\ dedupCalls = 1
    /\ Len(frames) = 3
    /\ Len(deduped) = 2

\* C2: the output of deduplicateFrames has no two consecutive frames that
\* are visually identical.
C2_NoConsecutiveIdentical ==
    dedupCalls >= 1 =>
        \A i \in 1..(Len(deduped) - 1) :
            ~VisuallyIdentical(deduped[i], deduped[i + 1])

\* several frames retained after a duplicate between them was dropped
C2_Witness ==
    /\ dedupCalls = 1
    /\ Len(frames) = 3
    /\ VisuallyIdentical(frames[1], frames[2])
    /\ ~VisuallyIdentical(frames[2], frames[3])
    /\ Len(deduped) = 2

\* The maximal runs of consecutive visually identical input frames.
RunStarts(fs) ==
    {i \in 1..Len(fs) : i = 1 \/ ~VisuallyIdentical(fs[i - 1], fs[i])}

RunEnd(fs, s) ==
    LET later == {t \in RunStarts(fs) : t > s}
    IN  IF later = {} THEN Len(fs)
        ELSE (CHOOSE t \in later : \A u \in later : t <= u) - 1

\* C3: a dropped duplicate adds its Delay to the retained frame and hands it
\* its Time, and the first frame is always retained: every maximal run of
\* identical input frames yields exactly one output frame that shows the
\* run's image, whose Delay is the sum of the run's delays and whose Time is
\* the Time of the run's last frame.
C3_RunsCollapse ==
    dedupCalls >= 1 =>
        /\ Len(deduped) = Cardinality(RunStarts(frames))
        /\ \A s \in RunStarts(frames) :
             LET k == Cardinality({t \in RunStarts(frames) : t <= s})
                 e == RunEnd(frames, s)
             IN  /\ VisuallyIdentical(deduped[k], frames[s])
                 /\ deduped[k].Delay =
                        SumDelay(SubSeq(frames, s, e))
                 /\ deduped[k].Time = frames[e].Time

\* a run of three identical frames collapsed into one
C3_Witness ==
    /\ dedupCalls = 1
    /\ Len(frames) = 3
    /\ Len(deduped) = 1
    /\ deduped[1].Delay = frames[1].Delay + frames[2].Delay + frames[3].Delay

\* C4: deduplication is idempotent - a second pass returns its input
\* unchanged in every field of every frame and in length.
C4_Idempotent ==
    dedupCalls = 2 => again = deduped

\* the second pass ran over a sequence the first pass had shortened
C4_Witness ==
    /\ dedupCalls = 2
    /\ Len(deduped) >= 2
    /\ Len(deduped) < Len(frames)

\* C5: for input of any length and with arbitrary incoming Index values the
\* returned frames carry Index 0, 1, ..., n-1 in order.
C5_IndexDense ==
    dedupCalls >= 1 => \A i \in 1..Len(deduped) : deduped[i].Index = i - 1

(***************************************************************************)
(* Specification of the colour catalog                                     *)
(***************************************************************************)
\* The colours of the cells the processor registers one at a time
RegisterArgs ==
    { DefaultColor,
      FromANSI(1),           \* palette red (128,0,0)
      FromRGB(128, 0, 0),    \* the same red as a true colour
      FromExtended(7),       \* (192,192,192): the RGB of the default foreground
      FromRGB(0, 0, 0),      \* the RGB of the default background
      FromRGB(0, 0, 1) }     \* the first colour of the gradient

InitCatalog == CatalogNew /\ IdleExcept("catalog")

SeenBefore(key) ==
    \/ GradientRank(key) \in 1..gradient
    \/ \E i \in 1..Len(firstSeen) : firstSeen[i] = key

\* catalog.Register(col, palette) for one cell colour
RegisterCall(col) ==
    LET r   == Register(catalog, col, Standard)
        key == colorKey(ToRGBA(col, Standard))
    IN  /\ colors' = r.catalog.colors
        /\ lookup' = r.catalog.lookup
        /\ nextID' = r.catalog.nextID
        /\ op' = "Register"
        /\ arg' = col
        /\ ret' = r.id
        /\ given' = given \cup {[col |-> col, id |-> r.id]}
        /\ firstSeen' = IF col.Type = "Default" \/ SeenBefore(key)
                        THEN firstSeen
                        ELSE Append(firstSeen, key)
        /\ UNCHANGED <<gradient, exceptCatalog>>

\* The recording opens with a gradient of n distinct true colours: Register
\* is called for each of them in turn on the new catalog.
RegisterGradient(n) ==
    LET r == RegisterGradientCells(catalog, 1, n)
        g == GradientRGBA(n)
    IN  /\ op = "NewColorCatalog"
        /\ colors' = r.catalog.colors
        /\ lookup' = r.catalog.lookup
        /\ nextID' = r.catalog.nextID
        /\ op' = "RegisterGradient"
        /\ arg' = FromRGB(g.R, g.G, g.B)
        /\ ret' = r.id
        /\ gradient' = n
        /\ UNCHANGED <<given, firstSeen, exceptCatalog>>

\* catalog.GenerateClassNames()
GenerateClassNamesCall ==
    /\ nextID <= MaxNames + 1
    /\ op' = "GenerateClassNames"
    /\ arg' = DefaultColor
    /\ ret' = GenerateClassNames(catalog)
    /\ UNCHANGED <<colors, lookup, nextID, given, gradient, firstSeen,
                   exceptCatalog>>

\* The runs the rasterizer is handed: FG and BG are ColorID 0 or 1
DrawnRuns ==
    { TextRun("ab", 1, CellAttrs(fg, bg, FALSE, FALSE, FALSE, dim))
        : fg \in {0, 1}, bg \in {0, 1}, dim \in BOOLEAN }

\* r.computeTextRunColors(run, rowY, catalog) for a run of row 1
ComputeTextRunColors(run, showWindow) ==
    /\ op' = "computeTextRunColors"
    /\ arg' = run
    /\ ret' = computeTextRunColors(run, 1, catalog, showWindow)
    /\ UNCHANGED <<colors, lookup, nextID, given, gradient, firstSeen,
                   exceptCatalog>>

NextCatalog ==
    \/ \E col \in RegisterArgs : RegisterCall(col)
    \/ \E n \in GradientSizes : RegisterGradient(n)
    \/ GenerateClassNamesCall
    \/ \E run \in DrawnRuns, showWindow \in BOOLEAN :
           ComputeTextRunColors(run, showWindow)

SpecCatalog == InitCatalog /\ [][NextCatalog]_vars

(***************************************************************************)
(* Claims about the colour catalog                                         *)
(***************************************************************************)
ResolvedKey(col) == colorKey(ToRGBA(col, Standard))

NonDefaultGiven == {g \in given : g.col.Type # "Default"}

\* C6: two non-Default colours have been given the same ColorID if and only
\* if their resolved (r,g,b) triples are equal, whichever variant (palette
\* index or true colour) each was supplied as.
C6_SameIDIffSameRGB ==
    \A g1, g2 \in NonDefaultGiven :
        (g1.id = g2.id) <=> (ResolvedKey(g1.col) = ResolvedKey(g2.col))

\* The position of a resolved RGB triple among the distinct triples ever
\* registered, in first-registered order and counted from 1.
FirstSeenRank(key) ==
    IF GradientRank(key) \in 1..gradient
    THEN GradientRank(key)
    ELSE gradient + (CHOOSE i \in 1..Len(firstSeen) : firstSeen[i] = key)

\* C7: IDs are assigned in first-seen order from 1 without gaps and never
\* change: every Register call on a non-Default colour, the first one and
\* every later one, returns the first-seen rank of the colour's RGB.
C7_IDIsFirstSeenRank ==
    \A g \in NonDefaultGiven : g.id = FirstSeenRank(ResolvedKey(g.col))

\* C8: Register of a Default colour returns ColorID 0 and leaves the lookup
\* table, the resolved-colour table, Count and the next ID as they were.
C8_RegisterDefaultNoEffect ==
    [][(op' = "Register" /\ arg'.Type = "Default") =>
          /\ ret' = 0
          /\ colors' = colors
          /\ lookup' = lookup
          /\ nextID' = nextID
          /\ colorsLen(colors') = colorsLen(colors)]_vars

\* Register(Default) has returned on a catalog that holds colours
C8_Witness ==
    /\ op = "Register"
    /\ arg.Type = "Default"
    /\ ret = 0
    /\ Count(catalog) >= 2

\* C9: ColorID 0 is never a key of the resolved-colour table and no
\* non-Default colour is ever assigned ID 0.
C9_ZeroNeverAssigned ==
    /\ ~colorsHas(colors, 0)
    /\ \A g \in NonDefaultGiven : g.id # 0

\* The k-th name of the spreadsheet-column sequence a..z, aa..zz, aaa..
RECURSIVE ColumnName(_)
ColumnName(k) ==
    IF k = 0 THEN <<>>
    ELSE ColumnName((k - 1) \div 26) \o <<97 + ((k - 1) % 26)>>

\* C10: GenerateClassNames maps each registered ID k, 1 <= k <= Count, to
\* the k-th spreadsheet-column name; the names are pairwise distinct and
\* depend on Count alone.
C10_ClassNamesByCount ==
    op = "GenerateClassNames" =>
        /\ DOMAIN ret = 1..Count(catalog)
        /\ \A k \in DOMAIN ret : ret[k] = ColumnName(k)
        /\ \A k \in DOMAIN ret : \A j \in 1..(k - 1) : ret[k] # ret[j]

\* C11: in every catalog state, a run whose BG is ColorID 0 is painted with
\* the theme's default background and a run whose FG is ColorID 0 is drawn
\* with the theme's default foreground (halved per channel when the run is
\* dim), never with an entry of the resolved-colour table.
C11_ZeroResolvesToThemeDefault ==
    op = "computeTextRunColors" =>
        /\ arg.Attrs.BG = 0 => ret.bg = defaultBG
        /\ arg.Attrs.FG = 0 =>
              ret.fg = IF arg.Attrs.Dim THEN dimColor(defaultFG) ELSE defaultFG

\* a run with both slots unset was coloured while the resolved-colour table
\* held an entry under key 0 that differs from both theme defaults
C11_Witness ==
    /\ op = "computeTextRunColors"
    /\ arg.Attrs.BG = 0
    /\ arg.Attrs.FG = 0
    /\ colorsHas(colors, 0)
    /\ colorsGet(colors, 0) \notin {defaultFG, defaultBG}
    /\ ret.bg = defaultBG
    /\ ret.fg = defaultFG

(***************************************************************************)
(* Specification of the event preprocessor                                 *)
(***************************************************************************)
\* The timestamps a recording may carry: the float64 values up to MaxTime
Times == {t \in 0..MaxTime : Float64(t, 1) = t}

\* Event i of a recording carries the i-th payload
Payload == <<"A", "B", "C", "D", "E">>

\* Speed 1.0, 2.0, 0.5 and the unset value 0
Speeds == {Speed(1, 1), Speed(2, 1), Speed(1, 2), Speed(0, 1)}

\* IdleTimeLimit.Seconds(), in quanta; 0 is no cap
IdleTimeLimits == {0, 2, 5}

Configs ==
    { ProcessorConfig(speed, limit, compress) :
        speed \in Speeds, limit \in IdleTimeLimits, compress \in BOOLEAN }

\* A parsed recording: events in time order, of either type
InitPre ==
    /\ \E n \in 0..MaxEvents :
         \E ts \in [1..n -> Times], tys \in [1..n -> {Output, Input}] :
             /\ \A i \in 1..(n - 1) : ts[i] <= ts[i + 1]
             /\ heap = << [i \in 1..n |-> Event(ts[i], tys[i], <<Payload[i]>>)] >>
             /\ cast = Slice(1, n)
    /\ config = DefaultProcessorConfig
    /\ events = Slice(0, 0)
    /\ before = <<>>
    /\ preCalls = 0
    /\ IdleExcept("pre")

\* events := p.preprocessEvents(cast) under configuration cfg
Preprocess(cfg) ==
    LET r == preprocessEvents(heap, cast, cfg)
    IN  /\ preCalls = 0
        /\ heap' = r.heap
        /\ events' = r.events
        /\ config' = cfg
        /\ before' = Elements(heap, cast)
        /\ preCalls' = 1
        /\ UNCHANGED <<cast, exceptPre>>

NextPre == \E cfg \in Configs : Preprocess(cfg)

SpecPre == InitPre /\ [][NextPre]_vars

(***************************************************************************)
(* Claims about the event preprocessor                                     *)
(***************************************************************************)
\* The events returned
Returned == Elements(heap, events)

\* The caller's events after the speed adjustment, and after the idle cap
SpeedAdjusted == adjustSpeed(before, config.Speed)

TimeAdjusted == capIdle(SpeedAdjusted, config.IdleTimeLimit)

RECURSIVE Payloads(_)
Payloads(evs) ==
    IF evs = <<>> THEN <<>> ELSE evs[1].EventData \o Payloads(Tail(evs))

\* The maximal runs of consecutive events with one timestamp
StampRunStarts(evs) ==
    {i \in 1..Len(evs) : i = 1 \/ evs[i].Time # evs[i - 1].Time}

StampRunEnd(evs, s) ==
    CHOOSE e \in s..Len(evs) :
        /\ \A j \in s..e : evs[j].Time = evs[s].Time
        /\ e = Len(evs) \/ evs[e + 1].Time # evs[s].Time

NthStampRun(evs, k) ==
    CHOOSE s \in StampRunStarts(evs) :
        Cardinality({x \in StampRunStarts(evs) : x <= s}) = k

Scenario ==
    << Event(0, Output, <<"A">>), Event(0, Output, <<"B">>),
       Event(Second, Output, <<"C">>) >>

\* C12: with compression on, every maximal run of consecutive events with
\* one timestamp becomes one event at that timestamp whose data is the
\* run's payloads in order; no two consecutive returned events have equal
\* timestamps; the concatenation of all payloads is unchanged; and
\* [(0,o,A),(0,o,B),(1,o,C)] gives exactly [(0,o,AB),(1,o,C)].
C12_CompressMergesEqualTimestamps ==
    (preCalls = 1 /\ config.Compress) =>
        /\ Len(Returned) = Cardinality(StampRunStarts(TimeAdjusted))
        /\ \A k \in 1..Len(Returned) :
             LET s == NthStampRun(TimeAdjusted, k)
                 e == StampRunEnd(TimeAdjusted, s)
             IN  /\ Returned[k].Time = TimeAdjusted[s].Time
                 /\ Returned[k].EventData =
                        Payloads(SubSeq(TimeAdjusted, s, e))
        /\ \A k \in 1..(Len(Returned) - 1) :
             Returned[k].Time # Returned[k + 1].Time
        /\ Payloads(Returned) = Payloads(before)
        /\ (before = Scenario /\ config = ProcessorConfig(Speed(1, 1), 0, TRUE))
              => Returned = << Event(0, Output, <<"A", "B">>),
                               Event(Second, Output, <<"C">>) >>

\* the scenario has been compressed
C12_Witness ==
    /\ preCalls = 1
    /\ config = ProcessorConfig(Speed(1, 1), 0, TRUE)
    /\ before = Scenario
    /\ Len(Returned) = 2

\* C13: with compression on, the payload of an input-type event is found in
\* the returned events alone, as the whole data of an event: it is neither
\* appended to another event nor extended by another event's payload.
C13_InputEventsNeverMerged ==
    (preCalls = 1 /\ config.Compress) =>
        \A i \in 1..Len(before) :
            before[i].EventType = Input =>
                \A k \in 1..Len(Returned) :
                    (\E x \in 1..Len(Returned[k].EventData) :
                         Returned[k].EventData[x] = Payload[i])
                    => Returned[k].EventData = before[i].EventData

\* C14: whatever the speed, idle cap and compress flag, when preprocessEvents
\* has returned the caller's list has the length and the events (timestamp,
\* type, data) it had before the call, and the list returned is held in
\* another array.
C14_InputNotMutated ==
    preCalls = 1 =>
        /\ cast.len = Len(before)
        /\ Elements(heap, cast) = before
        /\ events.arr # cast.arr

\* a call that changed timestamps and merged events has returned
C14_Witness ==
    /\ preCalls = 1
    /\ config.Compress
    /\ config.Speed = Speed(2, 1)
    /\ config.IdleTimeLimit > 0
    /\ Len(Returned) \in 1..(Len(before) - 1)
    /\ \E k \in 1..Len(Returned) : Returned[k].Time # before[k].Time

Gap(evs, i) == evs[i].Time - (IF i = 1 THEN 0 ELSE evs[i - 1].Time)

\* C15: with an idle cap c > 0 the returned timestamps are those of
\* convert-to-relative, clamp to c, convert-to-absolute applied to the
\* speed-adjusted input; every gap between consecutive returned events is
\* at most c and a gap that did not exceed c is unchanged; with c = 0 the
\* timestamps are those of the speed-adjusted input.
C15_IdleCapIsClampedPrefixSum ==
    (preCalls = 1 /\ ~config.Compress) =>
        LET c == config.IdleTimeLimit
        IN  /\ c > 0 =>
                /\ Returned = ToAbsoluteTime(
                                  CapRelativeTime(ToRelativeTime(SpeedAdjusted), c))
                /\ \A i \in 1..Len(Returned) :
                     /\ Gap(Returned, i) <= c
                     /\ Gap(SpeedAdjusted, i) <= c
                           => Gap(Returned, i) = Gap(SpeedAdjusted, i)
            /\ c = 0 => Returned = SpeedAdjusted

(***************************************************************************)
(* Specification of row capture                                            *)
(***************************************************************************)
\* The cells a terminal line may hold: plain letters, a bold letter, a dim
\* U+FFFD, and blanks on red given as a palette index and as a true colour
LineCells ==
    { Cell(97, DefaultColor, DefaultColor, FALSE, FALSE, FALSE, FALSE),
      Cell(98, DefaultColor, DefaultColor, FALSE, FALSE, FALSE, FALSE),
      Cell(97, DefaultColor, DefaultColor, TRUE, FALSE, FALSE, FALSE),
      Cell(RuneError, FromANSI(2), DefaultColor, FALSE, FALSE, FALSE, TRUE),
      Cell(32, DefaultColor, FromANSI(1), FALSE, FALSE, FALSE, FALSE),
      Cell(32, DefaultColor, FromRGB(128, 0, 0), FALSE, FALSE, FALSE, FALSE) }

BlankCell == Cell(32, DefaultColor, DefaultColor, FALSE, FALSE, FALSE, FALSE)

TermHeight == 2

\* A screen whose first line has been written; the line below it is blank
InitRow ==
    /\ \E w \in 0..MaxWidth : \E line \in [1..w -> LineCells] :
           rowTerm = Screen(w, TermHeight, <<line, [x \in 1..w |-> BlankCell]>>)
    /\ rowsDone = <<>>
    /\ rowCatalog = NewColorCatalog
    /\ rowStats = NoStats
    /\ IdleExcept("row")

\* rows[y] = p.captureRow(term, catalog, y, stats) for the next y
CaptureRow ==
    LET y == Len(rowsDone)
        r == captureRow(rowTerm, rowCatalog, y, rowStats)
    IN  /\ y < rowTerm.Height
        /\ rowsDone' = Append(rowsDone, r.row)
        /\ rowCatalog' = r.catalog
        /\ rowStats' = r.stats
        /\ UNCHANGED <<rowTerm, exceptRow>>

NextRow == CaptureRow

SpecRow == InitRow /\ [][NextRow]_vars

(***************************************************************************)
(* Claims about row capture                                                *)
(***************************************************************************)
RECURSIVE RunsText(_)
RunsText(runs) ==
    IF runs = <<>> THEN <<>> ELSE runs[1].Text \o RunsText(Tail(runs))

\* The characters of line y of the screen, column by column
LineText(y) == [x \in 1..rowTerm.Width |-> rowTerm.Cells[y + 1][x].Char]

\* C16: the runs of every captured row partition the row's columns into
\* non-empty segments: StartCol strictly increases, each run starts where
\* the one before it ends, the texts concatenated in order are the row's
\* cell characters column by column, no text is empty, and no two adjacent
\* runs have equal CellAttrs.
C16_RunsPartitionRow ==
    \A k \in 1..Len(rowsDone) :
        LET runs == rowsDone[k].Runs
        IN  /\ rowsDone[k].Y = k - 1
            /\ \A i \in 1..(Len(runs) - 1) :
                 /\ runs[i].StartCol < runs[i + 1].StartCol
                 /\ runs[i + 1].StartCol = runs[i].StartCol + Len(runs[i].Text)
                 /\ runs[i].Attrs # runs[i + 1].Attrs
            /\ \A i \in 1..Len(runs) : Len(runs[i].Text) >= 1
            /\ Len(runs) >= 1 => runs[1].StartCol = 0
            /\ RunsText(runs) = LineText(k - 1)

\* a row has been captured into several runs, one of them joining a cell
\* whose red is a palette index with a cell whose red is a true colour
C16_Witness ==
    \E k \in 1..Len(rowsDone) :
        /\ Len(rowsDone[k].Runs) >= 2
        /\ \E i \in 1..Len(rowsDone[k].Runs) :
             LET run == rowsDone[k].Runs[i]
             IN  /\ Len(run.Text) >= 2
                 /\ run.Attrs.BG # 0
                 /\ \E x, z \in 1..Len(run.Text) :
                      rowTerm.Cells[k][run.StartCol + x].Background
                          # rowTerm.Cells[k][run.StartCol + z].Background

(***************************************************************************)
(* Specification of Process                                                *)
(***************************************************************************)
\* Event i of a recording prints two bytes: Aa, Bb, ...
Printed == << <<65, 97>>, <<66, 98>>, <<67, 99>>, <<68, 100>>, <<69, 101>> >>

ProcessTimes == {0, Second, 2 * Second}

\* A Write succeeds, or fails after 0 or 1 of the event's bytes
WriteOutcomes ==
    {WriteOutcome(FALSE, 0), WriteOutcome(TRUE, 0), WriteOutcome(TRUE, 1)}

ProcessConfigs ==
    { ProcessorConfig(speed, limit, compress) :
        speed \in {Speed(1, 1), Speed(2, 1)}, limit \in {0, 2},
        compress \in BOOLEAN }

InitProcess ==
    /\ \E n \in 0..MaxEvents :
         \E ts \in [1..n -> ProcessTimes], os \in [1..n -> WriteOutcomes] :
             /\ \A i \in 1..(n - 1) : ts[i] <= ts[i + 1]
             /\ procCast = Cast(2, 1, "demo",
                    [i \in 1..n |-> Event(ts[i], Output, Printed[i])])
             /\ procOutcomes = os
    /\ procConfig = DefaultProcessorConfig
    /\ procRet = NotCalled
    /\ procCalls = 0
    /\ IdleExcept("process")

\* recording, err := processor.Process(cast)
ProcessCall(cfg) ==
    /\ procCalls = 0
    /\ procConfig' = cfg
    /\ procRet' = Process(procCast, cfg, procOutcomes)
    /\ procCalls' = 1
    /\ UNCHANGED <<procCast, procOutcomes, exceptProcess>>

NextProcess == \E cfg \in ProcessConfigs : ProcessCall(cfg)

SpecProcess == InitProcess /\ [][NextProcess]_vars

(***************************************************************************)
(* Claims about Process                                                    *)
(***************************************************************************)
\* The events Process writes to the terminal
WrittenEvents ==
    LET pre == preprocessEvents(<<procCast.Events>>,
                                Slice(1, Len(procCast.Events)), procConfig)
    IN  Elements(pre.heap, pre.events)

\* C17: when a Write of an event's bytes to the terminal fails, Process
\* returns that error and no Recording.
C17_WriteErrorAborts ==
    (procCalls = 1 /\ \E i \in 1..Len(WrittenEvents) : procOutcomes[i].failed)
        => /\ procRet.err = "write failed"
           /\ procRet.recording = "nil"

(***************************************************************************)
(* Specification of the raster engine and the GIF renderer                 *)
(***************************************************************************)
\* The frame buffers handed to the encoder, two pixels each: pixels of the
\* theme background, of the theme foreground and of the transparent colour
\* (palette index 0)
Pictures ==
    { <<defaultBG, defaultBG>>, <<defaultBG, defaultFG>>,
      <<defaultFG, defaultBG>>, <<defaultFG, defaultFG>>,
      <<Transparent, defaultBG>>, <<Transparent, Transparent>> }

\* Frame delays: 5 ms and 100 ms, in nanoseconds
RenderDelays == {5000000, 100000000}

\* The orders in which the map iteration may yield the colours
PaletteOrders == {<<defaultBG, defaultFG>>, <<defaultFG, defaultBG>>}

Contexts == {"background", "canceled", "deadline"}

InitRender ==
    /\ \E n \in 0..MaxFrames :
         \E ps \in [1..n -> Pictures], ds \in [1..n -> RenderDelays] :
             /\ renderRec = Recording(2, 1, SumTo(ds, n), "demo",
                    CapturedFrames(n, [i \in 1..n |-> [Rows |-> <<>>,
                                        Cursor |-> Cursor(0, 0, TRUE)]], ds, 0),
                    NewColorCatalog, NoStats)
             /\ picture = ps
    /\ renderOp = "New"
    /\ renderCtx = "background"
    /\ renderTheme = Default
    /\ renderFontLoads = TRUE
    /\ renderRet = NoResult
    /\ IdleExcept("render")

\* frames, err := rasterizer.Rasterize(rec)
RasterizeCall ==
    LET r == Rasterize(renderRec, picture)
    IN  /\ renderOp = "New"
        /\ renderOp' = "Rasterize"
        /\ renderRet' = [NoResult EXCEPT !.frames = r.frames, !.err = r.err,
                                         !.rendered = r.rendered]
        /\ UNCHANGED <<renderRec, picture, renderCtx, renderTheme, renderFontLoads,
                       exceptRender>>

\* frames, err := rasterizer.RasterizeWithPalette(rec, palette)
RasterizeWithPaletteCall(order, fontLoads) ==
    LET r == RasterizeWithPalette(renderRec, picture, buildPalette(order),
                                  fontLoads)
    IN  /\ renderOp = "New"
        /\ renderOp' = "RasterizeWithPalette"
        /\ renderFontLoads' = fontLoads
        /\ renderRet' = [NoResult EXCEPT !.frames = r.frames, !.err = r.err,
                                         !.rendered = r.rendered]
        /\ UNCHANGED <<renderRec, picture, renderCtx, renderTheme, exceptRender>>

\* err := renderer.Render(ctx, rec, w)
RenderCall(ctx, order, writerFails) ==
    LET r == Render(ctx, renderRec, picture, order, writerFails)
    IN  /\ renderOp = "New"
        /\ renderOp' = "Render"
        /\ renderCtx' = ctx
        /\ renderRet' = [NoResult EXCEPT !.err = r.err, !.out = r.out,
                                         !.palette = r.palette,
                                         !.rendered = r.rendered]
        /\ UNCHANGED <<renderRec, picture, renderTheme, renderFontLoads,
                       exceptRender>>

NextRender ==
    \/ RasterizeCall
    \/ \E order \in PaletteOrders, fontLoads \in BOOLEAN :
          RasterizeWithPaletteCall(order, fontLoads)
    \/ \E ctx \in Contexts, order \in PaletteOrders, writerFails \in BOOLEAN :
           RenderCall(ctx, order, writerFails)

SpecRender == InitRender /\ [][NextRender]_vars

(***************************************************************************)
(* Claims about the raster engine and the GIF renderer                     *)
(***************************************************************************)
\* C18: on a recording without frames Rasterize, RasterizeWithPalette and
\* Render return the error "recording has no frames" and no frames; no
\* palette is built, no frame is drawn and the writer receives nothing.
C18_EmptyRecordingRejected ==
    (renderOp # "New" /\ Len(renderRec.Frames) = 0) =>
        /\ renderRet.err = <<"recording has no frames">>
        /\ renderRet.frames = <<>>
        /\ renderRet.palette = <<>>
        /\ renderRet.rendered = 0
        /\ renderRet.out = <<>>

\* Rasterize has returned an error on a recording without frames
C18_Witness ==
    /\ renderOp = "Rasterize"
    /\ Len(renderRec.Frames) = 0
    /\ renderRet.err # NilError

\* C19: Render called on a recording with frames under a cancelled context
\* returns an error that is context.Canceled and the writer receives
\* nothing; no Render under a context that was not cancelled returns an
\* error that is context.Canceled.
C19_CancelledRenderIsCanceled ==
    renderOp = "Render" =>
        /\ (renderCtx = "canceled" /\ Len(renderRec.Frames) > 0) =>
              /\ errorsIs(renderRet.err, Canceled)
              /\ renderRet.out = <<>>
        /\ errorsIs(renderRet.err, Canceled) => renderCtx = "canceled"

\* Render has returned context.Canceled for a recording of several frames
C19_Witness ==
    /\ renderOp = "Render"
    /\ renderCtx = "canceled"
    /\ Len(renderRec.Frames) >= 2
    /\ errorsIs(renderRet.err, Canceled)
    /\ renderRet.rendered = Len(renderRec.Frames)

\* The image blocks of the output
ImageBlocks == Tail(renderRet.out)

\* The input frames an image is emitted for: the first, and every frame
\* that differs from the frame before it
EmittedFrames ==
    {i \in 1..Len(picture) : i = 1 \/ picture[i] # picture[i - 1]}

NthEmitted(k) ==
    CHOOSE i \in EmittedFrames :
        Cardinality({x \in EmittedFrames : x <= i}) = k

\* The composite after image block k: the first image in full; a later
\* image overwrites the pixels whose index is not its transparent index
RECURSIVE Composite(_)
Composite(k) ==
    IF k = 1 THEN ImageBlocks[1].Pix
    ELSE LET under == Composite(k - 1)
             b     == ImageBlocks[k]
         IN  [p \in 1..Len(b.Pix) |->
                 IF b.Pix[p] # b.TransparentIndex THEN b.Pix[p] ELSE under[p]]

\* The paletted frame buffer of input frame i
FrameBuffer(i) ==
    [p \in 1..Len(picture[i]) |-> PaletteIndex(renderRet.palette, picture[i][p])]

\* C20: replaying the images of the GIF in order, the first in full and
\* each later one over the composite so far, gives at every step the
\* paletted frame buffer of the input frame the image was emitted for; all
\* images have disposal none.
C20_DeltaRoundTrip ==
    (renderOp = "Render" /\ renderRet.err = NilError) =>
        /\ Len(ImageBlocks) = Cardinality(EmittedFrames)
        /\ \A k \in 1..Len(ImageBlocks) :
             /\ ImageBlocks[k].Disposal = DisposalNone
             /\ Composite(k) = FrameBuffer(NthEmitted(k))

\* The gif.GIF that Render hands to the encoder
Assembled ==
    assembleLoop(
        palettedFrameRendererRender(renderRec, picture, renderRet.palette,
                                    TRUE),
        1, GIF(<<>>, <<>>, <<>>, 0), NoImage)

Assembling ==
    renderOp = "Render" /\ renderRet.err = NilError

\* The input frames that delay entry k stands for: the frame image k was
\* emitted for and the frames skipped after it
FramesOfEntry(k) ==
    {i \in 1..Len(picture) :
        /\ NthEmitted(k) <= i
        /\ k < Cardinality(EmittedFrames) => i < NthEmitted(k + 1)}

\* max(2, floor(delay in milliseconds / 10)), for the last frame without
\* the maximum
QuantizedDelay(i) ==
    LET hundredths == renderRec.Frames[i].Delay \div 10000000
    IN  IF i < Len(renderRec.Frames) /\ hundredths < 2 THEN 2 ELSE hundredths

RECURSIVE SumOver(_, _)
SumOver(f, n) == IF n = 0 THEN 0 ELSE f[n] + SumOver(f, n - 1)

\* C21: every delay entry of the GIF is the sum, over the frames it stands
\* for, of max(2, floor(ms / 10)) for a frame that is not the last and of
\* floor(ms / 10) for the last; an entry that does not stand for the last
\* frame alone is at least 2.
C21_MinimumDelayExceptLast ==
    Assembling =>
        \A k \in 1..Len(Assembled.Delay) :
            /\ Assembled.Delay[k] =
                   SumOver([i \in 1..Len(picture) |->
                               IF i \in FramesOfEntry(k)
                               THEN QuantizedDelay(i) ELSE 0], Len(picture))
            /\ FramesOfEntry(k) # {Len(picture)} => Assembled.Delay[k] >= 2

\* a frame that is not the last quantizes below 2 and is raised, and the
\* last frame has an entry of its own that stays below 2
C21_Witness ==
    /\ Assembling
    /\ Len(picture) >= 2
    /\ renderRec.Frames[1].Delay \div 10000000 < 2
    /\ Assembled.Delay[1] = 2
    /\ FramesOfEntry(Len(Assembled.Delay)) = {Len(picture)}
    /\ Assembled.Delay[Len(Assembled.Delay)] < 2

\* The delay entry that stands for input frame i
EntryOf(i) == CHOOSE k \in 1..Len(Assembled.Delay) : i \in FramesOfEntry(k)

\* C22: when frames i and i+1 are both not the last, have different
\* images and are 5 ms apart, the delay entry of frame i is exactly 2.
C22_FiveMillisecondGapGivesTwo ==
    Assembling =>
        \A i \in 1..(Len(picture) - 2) :
            (/\ picture[i] # picture[i + 1]
             /\ renderRec.Frames[i + 1].Time - renderRec.Frames[i].Time
                    = 5000000)
            => Assembled.Delay[EntryOf(i)] = 2

\* C27: a frame equal to the last emitted frame appends no image and adds
\* its quantized delay to the last delay entry; Image, Delay and Disposal
\* have the same length, one entry per frame that differs from the frame
\* emitted before it, and the delay entries sum to the quantized delays of
\* all input frames.
C27_SkippedFramesAccumulateDelay ==
    Assembling =>
        /\ Len(Assembled.Image) = Len(Assembled.Delay)
        /\ Len(Assembled.Disposal) = Len(Assembled.Delay)
        /\ Len(Assembled.Image) = Cardinality(EmittedFrames)
        /\ \A k \in 1..Len(Assembled.Delay) :
               Assembled.Delay[k] =
                   SumOver([i \in 1..Len(picture) |->
                               IF i \in FramesOfEntry(k)
                               THEN calculateDelay(renderRec.Frames[i].Delay,
                                                   i - 1, Len(picture))
                               ELSE 0], Len(picture))
        /\ SumOver(Assembled.Delay, Len(Assembled.Delay)) =
               SumOver([i \in 1..Len(picture) |->
                           calculateDelay(renderRec.Frames[i].Delay, i - 1,
                                          Len(picture))], Len(picture))

\* a frame was skipped: fewer images than frames, and the skipped frame's
\* delay is in the entry of the image before it
C27_Witness ==
    /\ Assembling
    /\ Len(picture) = 3
    /\ picture[2] = picture[1]
    /\ picture[3] # picture[1]
    /\ Len(Assembled.Image) = 2
    /\ Assembled.Delay[1] = 12

(***************************************************************************)
(* Specification of buildPalette                                           *)
(***************************************************************************)
\* The default theme, a theme of one colour, and a theme whose background
\* is fully transparent
PaletteThemes ==
    { Default,
      Theme(RGBA(0, 0, 0, 255), RGBA(0, 0, 0, 255), RGBA(0, 0, 0, 255),
            <<RGBA(0, 0, 0, 255), RGBA(0, 0, 0, 255), RGBA(0, 0, 0, 255)>>),
      Theme(RGBA(192, 192, 192, 255), RGBA(0, 0, 0, 0), RGBA(40, 45, 53, 255),
            <<RGBA(255, 95, 86, 255), RGBA(255, 189, 46, 255),
              RGBA(24, 193, 50, 255)>>) }

\* How many colours the recording has registered: few, and as many as make
\* the colour set 255, 256 or more with one of the themes
RegisteredCounts == {0, 1, 248, 249, 250, 253, 254, 300}

RECURSIVE Distinct(_)
Distinct(q) ==
    IF q = <<>> THEN <<>>
    ELSE LET front == Distinct(SubSeq(q, 1, Len(q) - 1))
         IN  IF \E i \in 1..(Len(q) - 1) : q[i] = q[Len(q)]
             THEN front ELSE Append(front, q[Len(q)])

Reverse(q) == [i \in 1..Len(q) |-> q[Len(q) + 1 - i]]

\* Orders in which `for c := range colorSet` may yield the colours
IterationOrders(theme, c) ==
    LET fixed == Distinct(<<theme.Background, theme.WindowBackground,
                            theme.Foreground, theme.WindowButtons[1],
                            theme.WindowButtons[2], theme.WindowButtons[3],
                            DefaultForeground(c), DefaultBackground(c)>>)
        registered ==
            SelectSeq([id \in 1..Count(c) |-> All(c)[id]],
                      LAMBDA x : \A i \in 1..Len(fixed) : fixed[i] # x)
    IN  { fixed \o registered, registered \o fixed,
          Reverse(registered) \o fixed,
          Reverse(fixed) \o Reverse(registered) }

InitPalette ==
    /\ \E n \in RegisteredCounts, theme \in PaletteThemes :
         /\ renderRec = Recording(2, 1, 0, "demo",
                <<Frame(0, 0, 0, <<>>, Cursor(0, 0, TRUE))>>,
                RegisterGradientCells(NewColorCatalog, 1, n).catalog, NoStats)
         /\ renderTheme = theme
         /\ renderFontLoads = TRUE
    /\ picture = << <<defaultBG, defaultBG>> >>
    /\ renderOp = "New"
    /\ renderCtx = "background"
    /\ renderRet = NoResult
    /\ IdleExcept("render")

\* palette := r.buildPalette(rec)
BuildPaletteCall(order) ==
    /\ renderOp = "New"
    /\ renderOp' = "buildPalette"
    /\ renderRet' = [NoResult EXCEPT !.palette = buildPalette(order)]
    /\ UNCHANGED <<renderRec, picture, renderCtx, renderTheme, renderFontLoads,
                   exceptRender>>

NextPalette ==
    \E order \in IterationOrders(renderTheme, renderRec.Colors) :
        BuildPaletteCall(order)

SpecPalette == InitPalette /\ [][NextPalette]_vars

(***************************************************************************)
(* Claims about buildPalette                                               *)
(***************************************************************************)
PaletteColors ==
    {renderRet.palette[i] : i \in 1..Len(renderRet.palette)}

\* C28: the palette has the fully transparent colour at index 0 and between
\* 2 and 256 entries; when the theme colours, the catalog defaults and the
\* registered colours are at most 255 distinct colours, it holds them all.
C28_PaletteShape ==
    renderOp = "buildPalette" =>
        /\ renderRet.palette[1] = RGBA(0, 0, 0, 0)
        /\ Len(renderRet.palette) >= 2
        /\ Len(renderRet.palette) <= 256
        /\ Cardinality(colorSet(renderTheme, renderRec.Colors)) <= 255 =>
               colorSet(renderTheme, renderRec.Colors) \subseteq PaletteColors

\* exactly 255 distinct colours: the palette is full and nothing is cut
C28_Witness ==
    /\ renderOp = "buildPalette"
    /\ Cardinality(colorSet(renderTheme, renderRec.Colors)) = 255
    /\ Len(renderRet.palette) = 256

(***************************************************************************)
(* Claims about the Recording that Process returns                         *)
(***************************************************************************)
ReturnedFrames == procRet.recording.Frames

RECURSIVE SumOfDelays(_, _)
SumOfDelays(fs, n) == IF n = 0 THEN 0 ELSE fs[n].Delay + SumOfDelays(fs, n - 1)

\* C29: in the Recording that Process returns the first frame's Delay is
\* its Time, every later frame's Delay is its Time less the Time of the
\* frame before it, and Duration is the last frame's Time and the sum of
\* all Delays.
C29_DelayIsTimeDifference ==
    procCalls = 1 =>
        /\ \A i \in 1..Len(ReturnedFrames) :
               ReturnedFrames[i].Delay =
                   ReturnedFrames[i].Time -
                       (IF i = 1 THEN 0 ELSE ReturnedFrames[i - 1].Time)
        /\ Len(ReturnedFrames) > 0 =>
               procRet.recording.Duration =
                   ReturnedFrames[Len(ReturnedFrames)].Time
        /\ procRet.recording.Duration =
               SumOfDelays(ReturnedFrames, Len(ReturnedFrames))

\* deduplication merged frames taken at different times, and a frame
\* follows the merged one
C29_Witness ==
    /\ procCalls = 1
    /\ Len(ReturnedFrames) = 2
    /\ Len(WrittenEvents) = 3
    /\ WrittenEvents[1].Time < WrittenEvents[2].Time
    /\ WrittenEvents[2].Time < WrittenEvents[3].Time
    /\ procOutcomes[2].failed
    /\ procOutcomes[2].n = 0
    /\ ReturnedFrames[1].Delay > 0
    /\ ReturnedFrames[2].Delay > 0

(***************************************************************************)
(* Specification of the worker-pool render                                 *)
(***************************************************************************)
MaxWorkers == 2

\* The capacity of the progress channel (100 in progress.New)
MaxProgress == 1

\* The recording of n frames: frame i has a Delay of its own and its text is
\* drawn with palette index 2 or 3
PoolFrames(n) == [i \in 1..n |-> [Delay |-> 10 * i, Content |-> 2 + (i % 2)]]

InitPool ==
    /\ \E n \in 1..MaxFrames, numCPU \in 1..MaxWorkers,
          progressCh \in {NilChannel, Channel(MaxProgress)},
          fontLoads \in BOOLEAN :
         pool = RenderCalled(PoolFrames(n), numCPU, progressCh, fontLoads)
    /\ IdleExcept("pool")

\* if ProgressCh != nil { ProgressCh <- Update{"Rasterizing", 0, total} }
SendInitialProgress ==
    /\ pool.main = "progress"
    /\ pool.progressCh.nil \/ CanSend(pool.progressCh)
    /\ pool' = [pool EXCEPT
                  !.main = "start",
                  !.progressCh =
                      IF @.nil THEN @
                      ELSE Send(@, Update("Rasterizing", 0, Len(pool.frames)))]
    /\ UNCHANGED exceptPool

\* for w := 0; w < numWorkers; w++ { wg.Add(1); go func() {...}() }
StartWorkers ==
    /\ pool.main = "start"
    /\ pool' = [pool EXCEPT
                  !.main = "send",
                  !.wg = pool.numWorkers,
                  !.workers = [w \in 1..pool.numWorkers |->
                                  Worker("loadFontFace", "none", -1)]]
    /\ UNCHANGED exceptPool

\* for i := range frames { jobs <- i }
SendJob ==
    /\ pool.main = "send"
    /\ pool.sent < Len(pool.frames)
    /\ CanSend(pool.jobs)
    /\ pool' = [pool EXCEPT !.jobs = Send(@, pool.sent), !.sent = @ + 1]
    /\ UNCHANGED exceptPool

\* faulty variant: jobs is never closed
CloseJobsForgotten ==
    /\ pool.main = "send"
    /\ pool.sent = Len(pool.frames)
    /\ pool' = [pool EXCEPT !.main = "wait"]
    /\ UNCHANGED exceptPool

\* close(jobs)
CloseJobs ==
    /\ pool.main = "send"
    /\ pool.sent = Len(pool.frames)
    /\ pool' = [pool EXCEPT !.main = "wait", !.jobs.closed = TRUE]
    /\ UNCHANGED exceptPool

\* wg.Wait(); return results, nil
WaitAndReturn ==
    /\ pool.main = "wait"
    /\ pool.wg = 0
    /\ pool' = [pool EXCEPT !.main = "returned"]
    /\ UNCHANGED exceptPool

\* face, err := loadFontFace(...); if err != nil { face = fontFace }
LoadFontFace(w) ==
    /\ pool.workers[w].at = "loadFontFace"
    /\ pool' = [pool EXCEPT
                  !.workers[w].at = "range",
                  !.workers[w].face =
                      IF pool.fontLoads THEN "own" ELSE "shared"]
    /\ UNCHANGED exceptPool

\* for idx := range jobs: a frame index is received
Dequeue(w) ==
    /\ pool.workers[w].at = "range"
    /\ pool.jobs.buf # <<>>
    /\ pool' = [pool EXCEPT
                  !.workers[w].at = "renderSingleFrame",
                  !.workers[w].idx = Head(pool.jobs.buf),
                  !.jobs.buf = Tail(@),
                  !.taken[Head(pool.jobs.buf) + 1] = @ + 1]
    /\ UNCHANGED exceptPool

\* for idx := range jobs: jobs is closed and empty; defer wg.Done()
WorkerExit(w) ==
    /\ pool.workers[w].at = "range"
    /\ pool.jobs.buf = <<>>
    /\ pool.jobs.closed
    /\ pool' = [pool EXCEPT !.workers[w].at = "done", !.wg = @ - 1]
    /\ UNCHANGED exceptPool

\* results[idx] = fr.renderSingleFrame(idx, frames[idx], frames[idx].Delay,
\*                                     baseImg, face)
RenderSingleFrame(w) ==
    LET idx == pool.workers[w].idx
        r   == renderSingleFrame(pool.heap, idx, pool.frames[idx + 1],
                                 pool.frames[idx + 1].Delay, BaseAddr)
    IN  /\ pool.workers[w].at = "renderSingleFrame"
        /\ pool' = [pool EXCEPT
                      !.workers[w].at = "progress",
                      !.heap = r.heap,
                      !.results[idx + 1] =
                          [writes |-> @.writes + 1,
                           Image  |-> r.frame.Image,
                           Delay  |-> r.frame.Delay,
                           Index  |-> r.frame.Index]]
        /\ UNCHANGED exceptPool

\* if ProgressCh != nil { ProgressCh <- Update{"Rasterizing", idx+1, total} }
SendProgress(w) ==
    /\ pool.workers[w].at = "progress"
    /\ pool.progressCh.nil \/ CanSend(pool.progressCh)
    /\ pool' = [pool EXCEPT
                  !.workers[w].at = "range",
                  !.progressCh =
                      IF @.nil THEN @
                      ELSE Send(@, Update("Rasterizing",
                                          pool.workers[w].idx + 1,
                                          Len(pool.frames)))]
    /\ UNCHANGED exceptPool

\* Reporter.Start: for update := range r.updates
ReporterReceive ==
    /\ pool.main \notin {"idle"}
    /\ pool.progressCh.buf # <<>>
    /\ pool' = [pool EXCEPT !.progressCh.buf = Tail(@)]
    /\ UNCHANGED exceptPool

WorkerStep(w) ==
    \/ LoadFontFace(w)
    \/ Dequeue(w)
    \/ WorkerExit(w)
    \/ RenderSingleFrame(w)
    \/ SendProgress(w)

MainStep ==
    \/ SendInitialProgress
    \/ StartWorkers
    \/ SendJob
    \/ CloseJobs
    \/ WaitAndReturn

NextPool ==
    \/ MainStep
    \/ \E w \in DOMAIN pool.workers : WorkerStep(w)
    \/ ReporterReceive

SpecPool == InitPool /\ [][NextPool]_vars

\* Every goroutine that can take a step is scheduled again, and the reporter
\* keeps receiving
SpecPoolLive ==
    /\ SpecPool
    /\ WF_vars(MainStep)
    /\ \A w \in 1..MaxWorkers :
          WF_vars(w \in DOMAIN pool.workers /\ WorkerStep(w))
    /\ WF_vars(ReporterReceive)

\* The workers that are inside renderSingleFrame
Rendering == { w \in DOMAIN pool.workers :
                  pool.workers[w].at = "renderSingleFrame" }

\* Worker w completes renderSingleFrame for frame index idx in this step
Renders(w, idx) ==
    /\ pool.workers[w].at = "renderSingleFrame"
    /\ pool.workers[w].idx = idx
    /\ pool'.workers[w].at = "progress"

WorkersBound == Cardinality(Rendering) <= pool.numWorkers

\* The producer is about to enqueue a frame index
Enqueuing == pool.main = "send" /\ pool.sent < Len(pool.frames)

\* C30: the worker-pool render terminates when the progress channel is nil
\* or its consumer keeps receiving: enqueuing a frame index never blocks,
\* no index is dequeued twice, at the return every index has been dequeued
\* by exactly one worker and every worker has exited, and render returns.
C30_RenderTerminates ==
    /\ [](Enqueuing => CanSend(pool.jobs))
    /\ [](\A i \in DOMAIN pool.taken : pool.taken[i] <= 1)
    /\ [](pool.main = "returned" =>
            /\ \A i \in DOMAIN pool.taken : pool.taken[i] = 1
            /\ \A w \in DOMAIN pool.workers : pool.workers[w].at = "done"
            /\ pool.jobs.buf = <<>>)
    /\ <>(pool.main = "returned")

\* render returned with a progress channel in use, more frames than workers
C30_Witness ==
    /\ pool.main = "returned"
    /\ ~pool.progressCh.nil
    /\ Len(pool.frames) > Len(pool.workers)
    /\ Len(pool.workers) >= 2
    /\ \A i \in DOMAIN pool.taken : pool.taken[i] = 1

(***************************************************************************)
(* Specification of canvas.renderFramesParallel                            *)
(***************************************************************************)
\* framesEqualIR: the cursor and the rows of two frames are the same
framesEqualIR(a, b) == a.Content = b.Content

RECURSIVE needsRenderLoop(_, _, _, _)
\* The loop that marks the frames to render: i is the next index (from 0),
\* prevFrame the index of the last frame marked
needsRenderLoop(fs, i, prevFrame, marks) ==
    IF i >= Len(fs) THEN marks
    ELSE IF i = 0 THEN needsRenderLoop(fs, 1, 0, marks)
    ELSE IF ~framesEqualIR(fs[prevFrame + 1], fs[i + 1])
         THEN needsRenderLoop(fs, i + 1, i, [marks EXCEPT ![i + 1] = TRUE])
         ELSE needsRenderLoop(fs, i + 1, prevFrame, marks)

\* needsRender[0] = true, then the loop
needsRender(fs) ==
    needsRenderLoop(fs, 0, 0,
                    [i \in 1..Len(fs) |-> i = 1])

\* results := make([]*renderedFrame, len(frames)): nil pointers
NilFrame == [nil |-> TRUE, writes |-> 0, late |-> FALSE]

\* &renderedFrame{index, paletted, delay}, stored in a slot written
\* n times before; late tells that the store came after the return
renderedFrame(index, paletted, delay, n, late) ==
    [nil |-> FALSE, writes |-> n + 1, late |-> late,
     index |-> index, paletted |-> paletted, delay |-> delay]

\* The image a goroutine draws: a copy of basePaletted with the frame's
\* text drawn over its second pixel
drawnPaletted(frame) == [BasePix EXCEPT ![2] = frame.Content]

\* The frames of a recording of n frames: text drawn with palette index 2 or
\* 3, Delay 5 ms or 100 ms
ParallelFrames(n) ==
    { [i \in 1..n |-> [Delay |-> IF i % 2 = 0 THEN 5000000 ELSE 100000000,
                       Content |-> c[i]]] : c \in [1..n -> {2, 3}] }

RenderFramesParallelCalled(fs, numCPU, fontLoads) ==
    [main         |-> "loop",
     frames       |-> fs,
     fontLoads    |-> fontLoads,
     results      |-> [i \in 1..Len(fs) |-> NilFrame],
     needsRender  |-> needsRender(fs),
     i            |-> 0,
     numWorkers   |-> numCPU,
     sem          |-> 0,
     wg           |-> 0,
     goroutine    |-> [i \in 1..Len(fs) |-> "none"],
     ctxDone      |-> FALSE]

InitParallel ==
    /\ \E n \in 1..MaxFrames, numCPU \in 1..MaxWorkers, fontLoads \in BOOLEAN :
         \E fs \in ParallelFrames(n) :
             par = RenderFramesParallelCalled(fs, numCPU, fontLoads)
    /\ IdleExcept("parallel")

\* The delay renderFramesParallel computes for frames[i] (i from 0)
parallelDelay(i) ==
    calculateDelay(par.frames[i + 1].Delay, i, Len(par.frames))

\* The context is cancelled and its Done channel closed
CancelContext ==
    /\ par.main \in {"loop", "wait"}
    /\ ~par.ctxDone
    /\ par' = [par EXCEPT !.ctxDone = TRUE]
    /\ UNCHANGED exceptParallel

\* if !needsRender[i] { results[i] = &renderedFrame{i, nil, delay}; continue }
StoreDuplicate ==
    /\ par.main = "loop"
    /\ par.i < Len(par.frames)
    /\ ~par.needsRender[par.i + 1]
    /\ par' = [par EXCEPT
                 !.results[par.i + 1] =
                     renderedFrame(par.i, NoImage, parallelDelay(par.i),
                                   @.writes, FALSE),
                 !.i = @ + 1]
    /\ UNCHANGED exceptParallel

\* select { case <-ctx.Done(): return results; default: }
ReturnOnCancel ==
    /\ par.main = "loop"
    /\ par.i < Len(par.frames)
    /\ par.needsRender[par.i + 1]
    /\ par.ctxDone
    /\ par' = [par EXCEPT !.main = "returned"]
    /\ UNCHANGED exceptParallel

\* wg.Add(1); go func(idx, frame, frameDelay) {...}(i, frames[i], delay)
Spawn ==
    /\ par.main = "loop"
    /\ par.i < Len(par.frames)
    /\ par.needsRender[par.i + 1]
    /\ ~par.ctxDone
    /\ par' = [par EXCEPT
                 !.wg = @ + 1,
                 !.goroutine[par.i + 1] = "acquire",
                 !.i = @ + 1]
    /\ UNCHANGED exceptParallel

\* The loop over the frames ends
LoopDone ==
    /\ par.main = "loop"
    /\ par.i = Len(par.frames)
    /\ par' = [par EXCEPT !.main = "wait"]
    /\ UNCHANGED exceptParallel

\* wg.Wait(); return results
WaitReturn ==
    /\ par.main = "wait"
    /\ par.wg = 0
    /\ par' = [par EXCEPT !.main = "returned"]
    /\ UNCHANGED exceptParallel

\* faulty variant: the goroutine goes on without a free place in sem
AcquireUnbounded(idx) ==
    /\ par.goroutine[idx + 1] = "acquire"
    /\ par' = [par EXCEPT !.sem = @ + 1, !.goroutine[idx + 1] = "loadFontFace"]
    /\ UNCHANGED exceptParallel

\* sem <- struct{}{}
Acquire(idx) ==
    /\ par.goroutine[idx + 1] = "acquire"
    /\ par.sem < par.numWorkers
    /\ par' = [par EXCEPT !.sem = @ + 1, !.goroutine[idx + 1] = "loadFontFace"]
    /\ UNCHANGED exceptParallel

\* face, err := loadFontFace(...); if err != nil { return }, the deferred
\* release and wg.Done() with it
LoadFace(idx) ==
    /\ par.goroutine[idx + 1] = "loadFontFace"
    /\ par' = IF par.fontLoads
              THEN [par EXCEPT !.goroutine[idx + 1] = "draw"]
              ELSE [par EXCEPT !.goroutine[idx + 1] = "done",
                               !.sem = @ - 1,
                               !.wg = @ - 1]
    /\ UNCHANGED exceptParallel

\* The copy of the base image, the drawing, results[idx] = &renderedFrame{},
\* then the deferred release and wg.Done()
DrawAndStore(idx) ==
    /\ par.goroutine[idx + 1] = "draw"
    /\ par' = [par EXCEPT
                 !.results[idx + 1] =
                     renderedFrame(idx, drawnPaletted(par.frames[idx + 1]),
                                   parallelDelay(idx), @.writes,
                                   par.main = "returned"),
                 !.goroutine[idx + 1] = "done",
                 !.sem = @ - 1,
                 !.wg = @ - 1]
    /\ UNCHANGED exceptParallel

NextParallel ==
    \/ CancelContext
    \/ StoreDuplicate
    \/ ReturnOnCancel
    \/ Spawn
    \/ LoopDone
    \/ WaitReturn
    \/ \E idx \in 0..(MaxFrames - 1) :
          /\ idx < Len(par.frames)
          /\ Acquire(idx) \/ LoadFace(idx) \/ DrawAndStore(idx)

SpecParallel == InitParallel /\ [][NextParallel]_vars

\* The goroutines that hold the semaphore
Holding == { i \in DOMAIN par.goroutine :
                par.goroutine[i] \in {"loadFontFace", "draw"} }

\* C25: at every moment of the parallel frame render the number of frames
\* being rendered at once - the goroutines past the semaphore - is at most
\* the CPU parallelism numWorkers, however many frames the recording has.
C25_AtMostNumCPURendering ==
    /\ Cardinality(Holding) <= par.numWorkers
    /\ Cardinality(Holding) = par.sem

\* As many frames are being rendered as there are CPUs, two or more, and
\* another frame waits for the semaphore
C25_Witness ==
    /\ par.numWorkers >= 2
    /\ Cardinality(Holding) = par.numWorkers
    /\ \E i \in DOMAIN par.goroutine : par.goroutine[i] = "acquire"

\* C23: whenever the parallel frame render returns, on the cancellation path
\* too, results has one entry per frame, slot i has been written exactly once
\* with the rendering of frames[i] (its index and its delay), and no worker
\* writes to results after the return.
C23_EverySlotWrittenOnceAtReturn ==
    par.main = "returned" =>
        /\ Len(par.results) = Len(par.frames)
        /\ \A i \in DOMAIN par.results :
              /\ ~par.results[i].nil
              /\ par.results[i].writes = 1
              /\ ~par.results[i].late
              /\ par.results[i].index = i - 1
              /\ par.results[i].delay = parallelDelay(i - 1)
        /\ \A i \in DOMAIN par.goroutine :
              par.goroutine[i] \in {"none", "done"}

\* C26: when loading a frame's own font face fails, the render falls back to
\* the rasterizer's font face and completes: it returns no error and every
\* frame's result carries an image.
C26_FontFailureFallsBack ==
    (/\ renderOp = "RasterizeWithPalette"
     /\ ~renderFontLoads
     /\ Len(renderRec.Frames) > 0) =>
        /\ renderRet.err = NilError
        /\ Len(renderRet.frames) = Len(renderRec.Frames)
        /\ \A i \in DOMAIN renderRet.frames :
              renderRet.frames[i].Image # NoImage

====
